---- MODULE Spec2Model ----
(***************************************************************************)
(* Antfarm: terrain grid, colony tick, and checkpoint codec.               *)
(*                                                                         *)
(* Numbers that are floats in the source are fixed-point integers here:    *)
(*   energy          hundredths of an energy unit        (EScale)          *)
(*   pixel position  hundredths of a pixel               (PScale)          *)
(*   pheromone       binary fixed point, 2^-16 per unit  (PhOne)           *)
(* Math.random() is a nondeterministic choice.                             *)
(***************************************************************************)
EXTENDS Integers, Sequences, FiniteSets, TLC

VARIABLES
  grid,        \* state.grid: flat row-major hardness array (Uint8Array)
  totalDug,    \* state.totalDug
  entranceX,   \* state.entranceX
  ret,         \* value returned by the last API call (-1: none/void)
  opCount,     \* number of API calls made so far (bounds the run)
  lastCall,    \* the API function called last ("none" before any)
  frame,       \* state.frame
  simDay,      \* state.simDay
  hasQueen,    \* state.hasQueen
  ants,        \* state.ants: sequence of ant records
  phTrail,     \* state.phTrail (Float32Array)
  phFood,      \* state.phFood
  phDig,       \* state.phDig
  brood,       \* state.brood
  foods,       \* state.foods
  foodStores,  \* state.foodStores
  chambers,    \* state.chambers
  tuning,      \* state.tuning
  colonyGoals, \* state.colonyGoals: <<>> is null, <<g>> is the goals object
  directive,   \* state.directive: <<>> is null, <<d>> is the directive
  digPriority, \* state.digPriority
  nextAntId,   \* ant.js module variable _nextAntId
  nextBroodId, \* colony module variable _nextBroodId
  pc,          \* the page: "boot" before begin(), "running" in the game loop
  kv,          \* the checkpoint the server holds: <<>> is none, <<cp>> is one
  loadFailed,  \* begin() caught an exception from deserialize
  undef,       \* fields of the state object that are undefined
  crashed,     \* an exception escaped a handler
  digLog,      \* hardness found by each terrain.dig call of the last tick
  ranLog,      \* ids of the ants that ran sense/think/act in the last tick
  ticks,       \* ticks run since the first page load (bounds the run)
  loads,       \* times begin() has run (bounds the run)
  savedLately, \* network.lastSave is less than SAVE_INTERVAL ago
  syncedLately, \* network.lastSync is less than SYNC_INTERVAL ago
  network,     \* AF.network of every open page, by session id
  store,       \* the keys of the server's KV store other than the checkpoint
  calls        \* the server handlers that are running, with their locals

terrainVars == <<grid, totalDug, entranceX>>
colonyVars == <<frame, simDay, hasQueen, ants, phTrail, phFood, phDig, brood, foods,
                foodStores, chambers, tuning, colonyGoals, directive, digPriority>>
serverVars == <<network, store, calls>>
pageVars == <<nextAntId, nextBroodId, pc, kv, loadFailed, undef, crashed, digLog,
              ranLog, ticks, loads, savedLately, syncedLately, serverVars>>
vars == <<grid, totalDug, entranceX, ret, opCount, lastCall, frame, simDay, hasQueen, ants,
          phTrail, phFood, phDig, brood, foods, foodStores, chambers, tuning,
          colonyGoals, directive, digPriority, nextAntId, nextBroodId, pc, kv,
          loadFailed, undef, crashed, digLog, ranLog, ticks, loads, savedLately,
          syncedLately, network, store, calls>>

\* the specifications of the page and of the colony run without a server
NoServer == network = <<>> /\ store = <<>> /\ calls = <<>>

(***************************************************************************)
(* Model size.  The source grid is 320 x 227 (constants.js:13-14); the     *)
(* model keeps every formula of the source and shrinks the two dimensions. *)
(***************************************************************************)
COLS == 11
ROWS == 8
MaxOps == 4
PatchRadius == 1

\* constants.js:15  AF.SURFACE = Math.round(AF.ROWS * 0.27)
SURFACE == (ROWS * 27 + 50) \div 100
\* constants.js:12
CELL == 3

\* terrain.js:140
ENTRANCE_CLEAR_RADIUS == 2
\* terrain.js:92  out-of-bounds sentinel
SOLID_SENTINEL == 255
\* terrain.js:129-130  reinforced neighbours are raised to this hardness
REINFORCE_TO == 4
\* terrain.js:164,197,223  mound rows above the surface that are scanned
MOUND_SCAN == 20
\* terrain.js:174  tallest mound
MOUND_MAX == 15
\* terrain.js:223  rows below the surface that gravity scans
GRAVITY_DEPTH == 2
\* terrain.js:164  rows below the surface searched for the mound top
DEPOSIT_DEPTH == 3
\* terrain.js:78  bedrock
BEDROCK == 5

Min(a, b) == IF a < b THEN a ELSE b
Max(a, b) == IF a > b THEN a ELSE b
Abs(a) == IF a < 0 THEN -a ELSE a
Clamp(v, lo, hi) == IF v < lo THEN lo ELSE IF v > hi THEN hi ELSE v

\* the element of a one-element set
Only(s) == CHOOSE v \in s : TRUE

NCELLS == COLS * ROWS
Idx(x, y) == y * COLS + x
InBounds(x, y) == x >= 0 /\ x < COLS /\ y >= 0 /\ y < ROWS

\* A typed-array read: an index past the end reads undefined, which every
\* test in the source (!v, v > 0, v <= 2) treats like 0.
Cell(g, i) == IF i \in DOMAIN g THEN g[i] ELSE 0
\* A typed-array write: an index past the end is ignored.
SetCell(g, i, v) == IF i \in DOMAIN g THEN [g EXCEPT ![i] = v] ELSE g

\* a read without the bounds test
cellAt_NoSentinel(g, x, y) == Cell(g, Idx(x, y))
\* AF.terrain.cellAt: outside the grid everything is solid
cellAt(g, x, y) == IF ~InBounds(x, y) THEN SOLID_SENTINEL ELSE Cell(g, Idx(x, y))
isSolid(g, x, y) == cellAt(g, x, y) > 0

(***************************************************************************)
(* Digging                                                                 *)
(***************************************************************************)
ReinforceDirs == << <<-1, 0>>, <<1, 0>>, <<-1, -1>>, <<1, -1>>, <<0, -1>>, <<0, -2>> >>

RECURSIVE ReinforceFrom(_, _, _, _)
ReinforceFrom(g, x, y, k) ==
  IF k > Len(ReinforceDirs) THEN g
  ELSE LET nx == x + ReinforceDirs[k][1]
           ny == y + ReinforceDirs[k][2]
           ni == Idx(nx, ny)
           g2 == IF InBounds(nx, ny) /\ Cell(g, ni) > 0 /\ Cell(g, ni) < REINFORCE_TO
                 THEN SetCell(g, ni, REINFORCE_TO) ELSE g
       IN Only({ReinforceFrom(h, x, y, k + 1) : h \in {g2}})

_reinforce(g, x, y) == ReinforceFrom(g, x, y, 1)

\* dig with the counter bumped on every successful call, also a weakening one
dig_CountsWeakening(g, td, x, y) ==
  IF ~InBounds(x, y) THEN [grid |-> g, totalDug |-> td, ret |-> 0]
  ELSE LET i == Idx(x, y) IN
       IF Cell(g, i) = 0 THEN [grid |-> g, totalDug |-> td, ret |-> 0]
       ELSE IF Cell(g, i) <= 1
            THEN [grid |-> _reinforce(SetCell(g, i, 0), x, y),
                  totalDug |-> td + 1, ret |-> 1]
            ELSE [grid |-> SetCell(g, i, Cell(g, i) - 1), totalDug |-> td + 1, ret |-> 1]

\* dig without the early return on an open cell
dig_NoOpenCheck(g, td, x, y) ==
  IF ~InBounds(x, y) THEN [grid |-> g, totalDug |-> td, ret |-> 0]
  ELSE LET i == Idx(x, y) IN
       IF Cell(g, i) = 1
       THEN [grid |-> _reinforce(SetCell(g, i, 0), x, y),
             totalDug |-> td + 1, ret |-> 1]
       ELSE [grid |-> SetCell(g, i, Cell(g, i) - 1), totalDug |-> td, ret |-> 1]

\* AF.terrain.dig: the new grid, the new totalDug and the returned value.
dig(g, td, x, y) ==
  IF ~InBounds(x, y) THEN [grid |-> g, totalDug |-> td, ret |-> 0]
  ELSE LET i == Idx(x, y) IN
       IF Cell(g, i) = 0 THEN [grid |-> g, totalDug |-> td, ret |-> 0]
       ELSE IF Cell(g, i) <= 1
            THEN [grid |-> _reinforce(SetCell(g, i, 0), x, y),
                  totalDug |-> td + 1, ret |-> 1]
            ELSE [grid |-> SetCell(g, i, Cell(g, i) - 1), totalDug |-> td, ret |-> 1]

(***************************************************************************)
(* Sand deposit: side and k are the two Math.random() draws                *)
(* (side in {-1,1}; k = floor(r*r*16) in 0..15).                           *)
(***************************************************************************)
RECURSIVE TopSolidFrom(_, _, _)
TopSolidFrom(g, nx, y) ==
  IF y >= Min(ROWS, SURFACE + DEPOSIT_DEPTH) THEN -1
  ELSE IF Cell(g, Idx(nx, y)) > 0 THEN y - 1
  ELSE TopSolidFrom(g, nx, y + 1)

depositSand(g, eX, gx, side, k) ==
  LET entX   == IF eX # 0 THEN eX ELSE gx
      offset == ENTRANCE_CLEAR_RADIUS + 1 + k
      nx     == Max(2, Min(COLS - 3, entX + side * offset))
      found  == TopSolidFrom(g, nx, Max(0, SURFACE - MOUND_SCAN))
      depY   == IF found < 0 THEN SURFACE - 1 ELSE found
  IN IF Abs(nx - entX) <= ENTRANCE_CLEAR_RADIUS THEN g
     ELSE IF depY < SURFACE - MOUND_MAX THEN g
     ELSE IF depY >= 0 /\ depY < ROWS /\ Cell(g, Idx(nx, depY)) = 0
          THEN SetCell(g, Idx(nx, depY), 1)
          ELSE g

(***************************************************************************)
(* Entrance clearing                                                       *)
(***************************************************************************)
clearEntrance(g, eX) ==
  IF eX = 0 \/ eX < 0 THEN g
  ELSE [i \in DOMAIN g |->
          LET x == i % COLS
              y == i \div COLS
          IN IF /\ x >= eX - ENTRANCE_CLEAR_RADIUS /\ x <= eX + ENTRANCE_CLEAR_RADIUS
                /\ y >= Max(0, SURFACE - MOUND_SCAN) /\ y < SURFACE
                /\ g[i] > 0 /\ g[i] <= 2
             THEN 0 ELSE g[i]]

(***************************************************************************)
(* Gravity.  The pass visits rows bottom-up and columns left to right; a   *)
(* grain with both diagonals open slides left or right at random, so the   *)
(* pass yields a set of possible grids.                                    *)
(***************************************************************************)
inClearZone(eX, tx, ty) ==
  IF eX <= 0 THEN FALSE
  ELSE ty < SURFACE /\ Abs(tx - eX) <= ENTRANCE_CLEAR_RADIUS

GravTop == Min(ROWS - 2, SURFACE + GRAVITY_DEPTH)
GravBot == Max(0, SURFACE - MOUND_SCAN)
GravCells == (GravTop - GravBot + 1) * COLS

Move(g, x, y, tx, ty) == SetCell(SetCell(g, Idx(tx, ty), Cell(g, Idx(x, y))), Idx(x, y), 0)

\* a pass that lets packed and reinforced soil fall as well
GravityCell_MovesFirm(g, eX, x, y) ==
  LET v == Cell(g, Idx(x, y)) IN
  IF v = 0 \/ v > 4 THEN {g}
  ELSE IF inClearZone(eX, x, y) THEN {SetCell(g, Idx(x, y), 0)}
  ELSE IF cellAt(g, x, y + 1) = 0
       THEN IF inClearZone(eX, x, y + 1) THEN {g} ELSE {Move(g, x, y, x, y + 1)}
  ELSE LET cl == cellAt(g, x - 1, y + 1) = 0 /\ cellAt(g, x - 1, y) = 0
           cr == cellAt(g, x + 1, y + 1) = 0 /\ cellAt(g, x + 1, y) = 0
           lClear == inClearZone(eX, x - 1, y + 1)
           rClear == inClearZone(eX, x + 1, y + 1)
       IN IF cl /\ cr
          THEN IF lClear /\ rClear THEN {g}
               ELSE IF lClear THEN {Move(g, x, y, x + 1, y + 1)}
               ELSE IF rClear THEN {Move(g, x, y, x - 1, y + 1)}
               ELSE {Move(g, x, y, x - 1, y + 1), Move(g, x, y, x + 1, y + 1)}
          ELSE IF cl /\ ~lClear THEN {Move(g, x, y, x - 1, y + 1)}
          ELSE IF cr /\ ~rClear THEN {Move(g, x, y, x + 1, y + 1)}
          ELSE {g}

\* one cell of the pass: the grids it can leave
GravityCell(g, eX, x, y) ==
  LET v == Cell(g, Idx(x, y)) IN
  IF v = 0 \/ v > 2 THEN {g}
  ELSE IF inClearZone(eX, x, y) THEN {SetCell(g, Idx(x, y), 0)}
  ELSE IF cellAt(g, x, y + 1) = 0
       THEN IF inClearZone(eX, x, y + 1) THEN {g} ELSE {Move(g, x, y, x, y + 1)}
  ELSE LET cl == cellAt(g, x - 1, y + 1) = 0 /\ cellAt(g, x - 1, y) = 0
           cr == cellAt(g, x + 1, y + 1) = 0 /\ cellAt(g, x + 1, y) = 0
           lClear == inClearZone(eX, x - 1, y + 1)
           rClear == inClearZone(eX, x + 1, y + 1)
       IN IF cl /\ cr
          THEN IF lClear /\ rClear THEN {g}
               ELSE IF lClear THEN {Move(g, x, y, x + 1, y + 1)}
               ELSE IF rClear THEN {Move(g, x, y, x - 1, y + 1)}
               ELSE {Move(g, x, y, x - 1, y + 1), Move(g, x, y, x + 1, y + 1)}
          ELSE IF cl /\ ~lClear THEN {Move(g, x, y, x - 1, y + 1)}
          ELSE IF cr /\ ~rClear THEN {Move(g, x, y, x + 1, y + 1)}
          ELSE {g}

\* the cells lo..hi of the pass, in the loop's order (the lower half first)
RECURSIVE GravityFrom(_, _, _, _)
GravityFrom(G, eX, lo, hi) ==
  IF lo > hi THEN G
  ELSE IF lo = hi
  THEN LET x == lo % COLS
           y == GravTop - (lo \div COLS)
       IN UNION {GravityCell(g, eX, x, y) : g \in G}
  ELSE Only({GravityFrom(T, eX, (lo + hi) \div 2 + 1, hi) :
               T \in {GravityFrom(G, eX, lo, (lo + hi) \div 2)}})

\* AF.terrain.gravity: every grid one pass can produce.
gravity(g, eX) == GravityFrom({g}, eX, 0, GravCells - 1)

\* _think, case HAUL, timed-out haul: one grain dropped at (tx, ty).
haulDrop(g, tx, ty) ==
  IF InBounds(tx, ty) /\ Cell(g, Idx(tx, ty)) = 0 THEN SetCell(g, Idx(tx, ty), 1) ELSE g

(***************************************************************************)
(* Fresh terrain (AF.terrain.init).  fbm() ranges over [0, 0.9375], so the *)
(* noise term n = fbm - 0.4 ranges over [-0.40, 0.5375]; the model draws   *)
(* one of three noise fields.  One bedrock disc is scattered.              *)
(***************************************************************************)
NoiseLo == -40
NoiseHi == 53
NoiseFields == {"low", "high", "stripes"}
Noise(nf, x, y) ==
  IF nf = "low" THEN NoiseLo
  ELSE IF nf = "high" THEN NoiseHi
  ELSE IF (x + y) % 2 = 0 THEN NoiseLo ELSE NoiseHi

\* Math.max(1, Math.min(4, Math.round(1 + d * 2.5 + n))), in hundredths
SandHardness(nf, x, y) ==
  LET d250 == (250 * (y - SURFACE)) \div (ROWS - SURFACE)
      v    == 100 + d250 + Noise(nf, x, y)
  IN Max(1, Min(4, (v + 50) \div 100))

BedrockCentres == {<<2, SURFACE + 2>>, <<COLS - 3, ROWS - 2>>}

terrainInit(nf, bc) ==
  [i \in 0..(NCELLS - 1) |->
     LET x == i % COLS
         y == i \div COLS
         dx == x - bc[1]
         dy == y - bc[2]
     IN IF y < SURFACE THEN 0
        ELSE IF dx * dx + dy * dy <= PatchRadius * PatchRadius THEN BEDROCK
        ELSE SandHardness(nf, x, y)]

\* colony.create: Math.round(COLS * 0.45 + Math.random() * COLS * 0.1)
EntranceChoices == ((COLS * 45 + 50) \div 100)..((COLS * 55 + 49) \div 100)

FreshTerrains == {terrainInit(nf, bc) : nf \in NoiseFields, bc \in BedrockCentres}

\* A restored grid without any loose cell: one open cell enclosed by bedrock.
EnclosedGrid == [i \in 0..(NCELLS - 1) |-> IF i = Idx(COLS - 3, SURFACE + 1) THEN 0 ELSE BEDROCK]


(***************************************************************************)
(* Checkpoint codec helpers                                                *)
(*                                                                         *)
(* A base64 string is a sequence of symbols: 0..63 are the alphabet, B64Pad *)
(* is '=', and B64Bad is any character outside the alphabet.               *)
(***************************************************************************)
B64Pad == 64
B64Bad == 65

SeqOf(f) == [k \in 1..Cardinality(DOMAIN f) |-> f[k - 1]]
ArrOf(s) == [i \in 0..(Len(s) - 1) |-> s[i + 1]]

\* btoa: each group of three bytes becomes four symbols; a last group of
\* one or two bytes is filled up with '='
btoa(b) ==
  LET n == Len(b)
      byte(j) == IF j <= n THEN b[j] ELSE 0
      sym(p) ==
        LET q == 3 * ((p - 1) \div 4)
            r == (p - 1) % 4
        IN CASE r = 0 -> byte(q + 1) \div 4
             [] r = 1 -> (byte(q + 1) % 4) * 16 + byte(q + 2) \div 16
             [] r = 2 -> IF q + 2 <= n
                         THEN (byte(q + 2) % 16) * 4 + byte(q + 3) \div 64
                         ELSE B64Pad
             [] r = 3 -> IF q + 3 <= n THEN byte(q + 3) % 64 ELSE B64Pad
  IN [p \in 1..(4 * ((n + 2) \div 3)) |-> sym(p)]

\* btoa over the bytes of the array
_uint8ToBase64(arr) == btoa(SeqOf(arr))

\* an atob that does not accept the padding btoa writes
StripPad_Keeps(s) == s

\* atob, step 2 of forgiving-base64: strip one or two trailing '=' when the
\* length is a multiple of 4
StripPad(s) ==
  IF Len(s) % 4 = 0 /\ Len(s) >= 2 /\ s[Len(s)] = B64Pad
  THEN IF s[Len(s) - 1] = B64Pad THEN SubSeq(s, 1, Len(s) - 2)
       ELSE SubSeq(s, 1, Len(s) - 1)
  ELSE s

\* atob, the decoding proper: each group of four symbols yields three
\* bytes, a last group of two or three symbols yields one or two
AtobBytes(s) ==
  LET m == Len(s)
      tail == IF m % 4 = 2 THEN 1 ELSE IF m % 4 = 3 THEN 2 ELSE 0
      byte(j) ==
        LET q == 4 * ((j - 1) \div 3)
            r == (j - 1) % 3
        IN CASE r = 0 -> s[q + 1] * 4 + s[q + 2] \div 16
             [] r = 1 -> (s[q + 2] % 16) * 16 + s[q + 3] \div 4
             [] r = 2 -> (s[q + 3] % 4) * 64 + s[q + 4]
  IN [j \in 1..(3 * (m \div 4) + tail) |-> byte(j)]

\* atob: throws (ok = FALSE) on a length of 1 mod 4 or a symbol outside the
\* alphabet, else yields the decoded bytes
atob(b64) ==
  LET s == StripPad(b64) IN
  IF Len(s) % 4 = 1 \/ \E k \in 1..Len(s) : s[k] >= B64Pad
  THEN [ok |-> FALSE, bytes |-> <<>>]
  ELSE [ok |-> TRUE, bytes |-> AtobBytes(s)]

_base64ToUint8(b64) ==
  LET r == atob(b64) IN [ok |-> r.ok, arr |-> ArrOf(r.bytes)]

(***************************************************************************)
(* Pheromone values are Float32; the model keeps 16 binary fraction bits.  *)
(***************************************************************************)
PhOne == 65536
\* pheromones.js:14  cap 1.5
PhCap == (3 * PhOne) \div 2
\* nearest fixed-point value to the decimal num/den
PhOf(num, den) == (2 * num * PhOne + den) \div (2 * den)

\* an encoder that keeps three decimals, still counted in 0.0001
ToFixed4_ThreeDecimals(v) == 10 * ((2 * v * 1000 + PhOne) \div (2 * PhOne))

\* x.toFixed(4) of a pheromone value, as a count of 0.0001
ToFixed4(v) == (2 * v * 10000 + PhOne) \div (2 * PhOne)

\* the entries of _sparseEncode: the cells above 0.003, in index order
SparseEntries(f) ==
  LET cells == [k \in 1..Cardinality(DOMAIN f) |-> <<k - 1, f[k - 1]>>]
      kept == SelectSeq(cells, LAMBDA c : c[2] * 1000 > 3 * PhOne)
  IN [k \in 1..Len(kept) |-> <<kept[k][1], ToFixed4(kept[k][2])>>]

_sparseEncode(f) == [length |-> Cardinality(DOMAIN f), entries |-> SparseEntries(f)]

RECURSIVE StoreEntries(_, _, _)
StoreEntries(arr, es, k) ==
  IF k > Len(es) THEN arr
  ELSE StoreEntries(SetCell(arr, es[k][1], PhOf(es[k][2], 10000)), es, k + 1)

\* present = FALSE models a missing (undefined) field
_sparseDecode(present, data, defaultLen) ==
  IF ~present THEN [i \in 0..(defaultLen - 1) |-> 0]
  ELSE LET len == IF data.length # 0 THEN data.length ELSE defaultLen
       IN StoreEntries([i \in 0..(len - 1) |-> 0], data.entries, 1)

\* a rounding that cuts the digits off instead of rounding to nearest
ToFixed_Truncates(v, from, to) ==
  IF v >= 0 THEN (v * to) \div from ELSE -(((-v) * to) \div from)

\* Number.prototype.toFixed: v is in units of 1/from; the result is the
\* nearest count of 1/to, ties away from zero
ToFixed(v, from, to) ==
  IF v >= 0 THEN (2 * v * to + from) \div (2 * from)
  ELSE -((2 * (-v) * to + from) \div (2 * from))

(***************************************************************************)
(* Terrain API specification: a fresh terrain driven by arbitrary calls.   *)
(***************************************************************************)
\* A terrain after a colony has sunk its shaft: the entrance column dug open,
\* call by call, from the surface down to the row above the floor.
RECURSIVE Sink(_, _, _)
Sink(g, x, y) ==
  IF y > ROWS - 2 THEN g
  ELSE IF Cell(g, Idx(x, y)) = 0 THEN Sink(g, x, y + 1)
  ELSE Sink(dig(g, 0, x, y).grid, x, y)

DeepShaftGrid == Sink(terrainInit("low", <<2, SURFACE + 2>>), (COLS * 45 + 50) \div 100, SURFACE)

DigXs == {(COLS * 45 + 50) \div 100, COLS - 3}
DigYs == {SURFACE - 1, SURFACE, SURFACE + 1}
DigPoints ==
  {<<x, y>> : x \in DigXs, y \in DigYs}
    \cup {<<COLS - 3, ROWS - 2>>}
    \cup {<<-1, SURFACE>>, <<COLS, SURFACE>>, <<COLS - 3, -1>>, <<COLS - 3, ROWS>>}
DropPoints == {<<x, y>> : x \in DigXs, y \in {SURFACE - 1, SURFACE + 1}}
                \cup {<<(COLS * 45 + 50) \div 100, SURFACE + 3>>}
DepositXs == {COLS - 3}
DepositKs == {0, 15}

\* The terrain API specification drives the grid alone: no colony is loaded.
IdleColony ==
  /\ frame = 0 /\ simDay = 1 /\ hasQueen = FALSE /\ ants = <<>>
  /\ phTrail = <<>> /\ phFood = <<>> /\ phDig = <<>>
  /\ brood = <<>> /\ foods = <<>> /\ foodStores = <<>> /\ chambers = <<>>
  /\ tuning = <<>> /\ colonyGoals = <<>> /\ directive = <<>> /\ digPriority = 7
  /\ nextAntId = 1 /\ nextBroodId = 1 /\ pc = "terrain" /\ kv = <<>> /\ NoServer
  /\ loadFailed = FALSE /\ undef = {} /\ crashed = FALSE
  /\ digLog = <<>> /\ ranLog = {} /\ ticks = 0 /\ loads = 0 /\ savedLately = FALSE
  /\ syncedLately = FALSE

InitTerrain ==
  /\ grid \in FreshTerrains \cup {EnclosedGrid, DeepShaftGrid}
  /\ entranceX \in EntranceChoices
  /\ totalDug = 0
  /\ ret = -1
  /\ opCount = 0
  /\ lastCall = "none"
  /\ IdleColony

CallDig(x, y) ==
  /\ opCount < MaxOps
  /\ LET r == dig(grid, totalDug, x, y) IN
       /\ grid' = r.grid
       /\ totalDug' = r.totalDug
       /\ ret' = r.ret
  /\ opCount' = opCount + 1
  /\ lastCall' = "dig"
  /\ UNCHANGED <<entranceX, colonyVars, pageVars>>

CallDepositSand(gx, side, k) ==
  /\ opCount < MaxOps
  /\ grid' = depositSand(grid, entranceX, gx, side, k)
  /\ ret' = -1
  /\ opCount' = opCount + 1
  /\ lastCall' = "depositSand"
  /\ UNCHANGED <<totalDug, entranceX, colonyVars, pageVars>>

CallClearEntrance ==
  /\ opCount < MaxOps
  /\ grid' = clearEntrance(grid, entranceX)
  /\ ret' = -1
  /\ opCount' = opCount + 1
  /\ lastCall' = "clearEntrance"
  /\ UNCHANGED <<totalDug, entranceX, colonyVars, pageVars>>

CallGravity ==
  /\ opCount < MaxOps
  /\ grid' \in gravity(grid, entranceX)
  /\ ret' = -1
  /\ opCount' = opCount + 1
  /\ lastCall' = "gravity"
  /\ UNCHANGED <<totalDug, entranceX, colonyVars, pageVars>>

CallHaulDrop(tx, ty) ==
  /\ opCount < MaxOps
  /\ grid' = haulDrop(grid, tx, ty)
  /\ ret' = -1
  /\ opCount' = opCount + 1
  /\ lastCall' = "haulDrop"
  /\ UNCHANGED <<totalDug, entranceX, colonyVars, pageVars>>

\* AF.terrain.cellAt: a query, the grid stays as it is
CallCellAt(x, y) ==
  /\ opCount < MaxOps
  /\ ret' = cellAt(grid, x, y)
  /\ opCount' = opCount + 1
  /\ lastCall' = "cellAt"
  /\ UNCHANGED <<terrainVars, colonyVars, pageVars>>

\* AF.terrain.isSolid: ret is 1 for true and 0 for false
CallIsSolid(x, y) ==
  /\ opCount < MaxOps
  /\ ret' = IF isSolid(grid, x, y) THEN 1 ELSE 0
  /\ opCount' = opCount + 1
  /\ lastCall' = "isSolid"
  /\ UNCHANGED <<terrainVars, colonyVars, pageVars>>

DigAny == \E p \in DigPoints : CallDig(p[1], p[2])
CellAtAny == \E p \in DigPoints : CallCellAt(p[1], p[2])
IsSolidAny == \E p \in DigPoints : CallIsSolid(p[1], p[2])
DepositAny == \E gx \in DepositXs, side \in {-1, 1}, k \in DepositKs : CallDepositSand(gx, side, k)
HaulDropAny == \E p \in DropPoints : CallHaulDrop(p[1], p[2])

NextTerrain ==
  \/ DigAny
  \/ DepositAny
  \/ CallClearEntrance
  \/ CallGravity
  \/ HaulDropAny
  \/ CellAtAny
  \/ IsSolidAny

SpecTerrain == InitTerrain /\ [][NextTerrain]_vars

(***************************************************************************)
(* The colony: agents, pheromone fields, checkpoints and the tick          *)
(***************************************************************************)

\* Pixel positions and energies are kept in hundredths, so that the 0.1
\* energy drain, the 0.2 dig cost and sub-pixel moves are exact integers.
PScale == 10 * 10
EScale == 10 * 10
\* An ant's maturity is kept in units of 0.00001, so that the step of a tick
\* (0.00003) is an integer; an ant that has no maturity property (ant.js
\* create sets none) carries NoMaturity.
MScale == 1000 * 100
MATURITY_STEP == 3
NoMaturity == 0 - 1
\* toFixed(3) keeps counts of 0.001
FIXED3 == 1000

FRAME == 3
W == COLS * CELL
H == ROWS * CELL
SURFACE_PX == SURFACE * CELL

ST_IDLE == 0
ST_ENTER == 1
ST_DIG == 2
ST_HAUL == 3
ST_FORAGE == 4
ST_CARRY == 5
ST_EXPLORE == 6
ST_REST == 7
ST_NURSE == 8
ST_HUNGRY == 9

\* constants.js:73-79  AF.CHAMBER_TYPE
CHAMBER_GENERAL == "general"
CHAMBER_ROYAL == "royal"
CHAMBER_BROOD == "brood"
CHAMBER_FOOD == "food"
CHAMBER_MIDDEN == "midden"

BROOD_EGG == 0
BROOD_LARVA == 1
BROOD_PUPA == 2
BROOD_TIME_EGG == 900
BROOD_TIME_LARVA == 1800
BROOD_TIME_PUPA == 1200
LARVA_FEEDINGS_NEEDED == 3

B_REST_MIN == 400
B_REST_MAX == 900
B_REST_DUR_MIN == 40
B_REST_DUR_MAX == 100
B_DIG_CD_BASE == 4
B_STUCK_TELEPORT == 6
B_STUCK_DROP == 20
B_ENTER_PATIENCE == 80
B_HUNGER_THRESHOLD == 350
QUEEN_ENERGY == 99999
INITIAL_WORKERS == 8
MAX_POPULATION == 80

\* (v / d) | 0 : division truncated toward zero
Trunc(v, d) == IF v >= 0 THEN v \div d ELSE -((-v) \div d)
Sign(v) == IF v > 0 THEN 1 ELSE IF v < 0 THEN -1 ELSE 0

\* AF.ant.gx / AF.ant.gy
gxOf(a) == Trunc(a.x, CELL * PScale)
gyOf(a) == Trunc(a.y, CELL * PScale)

\* centre of a grid column or row, in position units
CellCentre(c) == c * CELL * PScale + (CELL * PScale) \div 2

RemoveAt(s, i) == [k \in 1..(Len(s) - 1) |-> IF k < i THEN s[k] ELSE s[k + 1]]

\* a deposit that adds without the cap
phSet_NoCap(f, x, y, value) ==
  IF InBounds(x, y) THEN SetCell(f, Idx(x, y), Cell(f, Idx(x, y)) + value) ELSE f

\* AF.pheromones.set: deposit, saturating at 1.5; outside the grid nothing
phSet(f, x, y, value) ==
  IF InBounds(x, y)
  THEN SetCell(f, Idx(x, y), Min(PhCap, Cell(f, Idx(x, y)) + value))
  ELSE f

\* a read that takes everything outside the grid as saturated
phGet_OutsideFull(f, x, y) == IF InBounds(x, y) THEN Cell(f, Idx(x, y)) ELSE PhCap

\* AF.pheromones.get
phGet(f, x, y) == IF InBounds(x, y) THEN Cell(f, Idx(x, y)) ELSE 0

\* a decay that multiplies and never snaps to zero
DecayCell_NoSnap(v, permille) == (v * permille + 500) \div 1000

\* one cell of AF.pheromones.decay: multiply, store as a single-precision
\* value, and snap anything under 0.003 to zero
DecayCell(v, permille) ==
  LET w == (v * permille + 500) \div 1000
  IN IF w * 1000 < 3 * PhOne THEN 0 ELSE w

TRAIL_DECAY == 993
FOOD_DECAY == 996
DIG_DECAY == 990

decay(S) ==
  [S EXCEPT !.phTrail = [i \in DOMAIN S.phTrail |-> DecayCell(S.phTrail[i], TRAIL_DECAY)],
            !.phFood = [i \in DOMAIN S.phTrail |-> DecayCell(Cell(S.phFood, i), FOOD_DECAY)],
            !.phDig = [i \in DOMAIN S.phTrail |-> DecayCell(Cell(S.phDig, i), DIG_DECAY)]]

\* the twelve sample offsets of AF.pheromones.gradient at radius 5
GradOffsets5 ==
  << <<5, 0>>, <<4, 3>>, <<2, 4>>, <<0, 5>>, <<-3, 4>>, <<-4, 2>>,
     <<-5, 0>>, <<-4, -3>>, <<-2, -4>>, <<0, -5>>, <<3, -4>>, <<4, -2>> >>

RECURSIVE GradientFrom(_, _, _, _, _, _)
GradientFrom(f, gx, gy, offs, k, best) ==
  IF k > Len(offs) THEN best
  ELSE Only({GradientFrom(f, gx, gy, offs, k + 1,
                          IF v * 100 > b.strength * 100 + PhOne
                          THEN [angle |-> k, strength |-> v] ELSE b) :
               v \in {phGet(f, gx + offs[k][1], gy + offs[k][2])}, b \in {best}})

\* AF.pheromones.gradient: strongest sample (angle 0 stands for null, k for
\* the k-th sampled direction) and its strength
gradient(f, gx, gy, offs) ==
  GradientFrom(f, gx, gy, offs, 1, [angle |-> 0, strength |-> phGet(f, gx, gy)])

\* AF.ant.create, with the random energy and carry capacity as inputs
antCreate(id, x, y, isQueen, e, msc) ==
  [id |-> id, isQueen |-> isQueen, x |-> x, y |-> y,
   state |-> ST_IDLE, prevState |-> ST_IDLE,
   energy |-> IF isQueen THEN QUEEN_ENERGY * EScale ELSE e,
   carryingSand |-> 0, carryingFood |-> 0, carrying |-> FALSE, maxSandCarry |-> msc,
   stuck |-> 0, digCD |-> 0, stateTimer |-> 0, timeSinceRest |-> 0,
   restDuration |-> 0, pauseTimer |-> 0, maturity |-> NoMaturity]

\* _changeState
_changeState(a, st) ==
  [a EXCEPT !.prevState = a.state, !.state = st, !.stateTimer = 0, !.stuck = 0]

DefaultTuning ==
  [restThreshold |-> 20, antMaxEnergy |-> 100, queenSpawnRate |-> 1800,
   sandCarryMax |-> 5]

\* (state.tuning && state.tuning.<field>) || <default>
Tun(S, field) ==
  IF S.tuning # <<>> /\ S.tuning[1][field] # 0
  THEN S.tuning[1][field] ELSE DefaultTuning[field]

SScale == 10 * 10
REST_ENERGY == 600
FORAGE_RADIUS == 200
FORAGE_RADIUS_MAX == 400
STORE_RADIUS == 600

GradOffsets6 ==
  << <<6, 0>>, <<5, 3>>, <<3, 5>>, <<0, 6>>, <<-3, 5>>, <<-5, 3>>,
     <<-6, 0>>, <<-5, -3>>, <<-3, -5>>, <<0, -6>>, <<3, -5>>, <<5, -3>> >>

Dist2(f, a) == (f.x - a.x) * (f.x - a.x) + (f.y - a.y) * (f.y - a.y)

\* index of the nearest item with something left and closer than maxD pixels
\* (the first of equally near ones), 0 when there is none
NearestIdx(list, a, maxD) ==
  LET cands == {i \in DOMAIN list :
                  list[i].amount > 0
                  /\ Dist2(list[i], a) \div (PScale * PScale) < maxD * maxD}
  IN IF cands = {} THEN 0
     ELSE CHOOSE i \in cands :
            \A j \in cands :
              Dist2(list[i], a) < Dist2(list[j], a)
              \/ (Dist2(list[i], a) = Dist2(list[j], a) /\ i <= j)

\* _findNearestFood
_findNearestFood(S, a) == NearestIdx(S.foods, a, Min(FORAGE_RADIUS, FORAGE_RADIUS_MAX))

\* _findNearestFoodStore: <<"store", i>>, <<"food", i>> or <<"none", 0>>
_findNearestFoodStore(S, a) ==
  LET i == NearestIdx(S.foodStores, a, STORE_RADIUS)
      j == NearestIdx(S.foods, a, STORE_RADIUS)
  IN IF i # 0 THEN <<"store", i>> ELSE IF j # 0 THEN <<"food", j>> ELSE <<"none", 0>>

\* _sense
_sense(S, a) ==
  LET gx == gxOf(a)
      gy == gyOf(a)
  IN [gx |-> gx, gy |-> gy,
      atSurface |-> gy <= SURFACE,
      underground |-> gy > SURFACE + 1,
      digGrad |-> gradient(S.phDig, gx, gy, GradOffsets5),
      foodGrad |-> gradient(S.phFood, gx, gy, GradOffsets6),
      nearestFood |-> _findNearestFood(S, a)]

UNSTICK_UP == 30
UNSTICK_SIDE == 8

\* _unstick: the nearest open cell straight up, else to the side, else the
\* surface above the ant
_unstick(S, a) ==
  LET gx == gxOf(a)
      gy == gyOf(a)
      Before(p, q) ==
        \/ p[1] < q[1]
        \/ (p[1] = q[1] /\ p[2] < q[2])
        \/ (p[1] = q[1] /\ p[2] = q[2] /\ p[3] <= q[3])
      To(ups, sides) ==
        IF ups # {}
        THEN LET d == CHOOSE d \in ups : \A e \in ups : d <= e
             IN <<CellCentre(gx), CellCentre(gy - d)>>
        ELSE IF sides # {}
        THEN LET p == CHOOSE p \in sides : \A q \in sides : Before(p, q)
             IN <<CellCentre(gx + p[2] * p[1]), CellCentre(gy + p[3])>>
        ELSE <<CellCentre(gx), (SURFACE_PX - CELL) * PScale>>
  IN Only({[a EXCEPT !.x = to[1], !.y = to[2], !.stuck = 0] :
             to \in {To(ups, sides) :
                       ups \in {{d \in 1..UNSTICK_UP : ~isSolid(S.grid, gx, gy - d)}},
                       sides \in {{<<r, sg, dy>> \in (1..UNSTICK_SIDE) \X {-1, 1} \X ((-3)..0) :
                                     ~isSolid(S.grid, gx + sg * r, gy + dy)}}}})

\* the rest check's random threshold, at the two ends of its range
RestDue(S, a, rnd) ==
  /\ a.timeSinceRest * 100 > B_REST_MIN * (80 + Tun(S, "restThreshold"))
  /\ rnd.restRoll = 1 => a.timeSinceRest >= B_REST_MAX

\* a timeout of base + random * span frames, at the two ends of its range
TimedOut(timer, base, span, roll) ==
  IF roll = 0 THEN timer > base ELSE timer >= base + span

MaxEnergy(S) == Tun(S, "antMaxEnergy") * 11 * EScale

IDLE_INITIATIVE_AFTER == 15
NUDGE_AFTER == 30
NUDGE_PRIORITY == 6
JOIN_PRIORITY == 4
DIG_SURFACE_AFTER == 10
HAUL_TIMEOUT == 400
FORAGE_TIMEOUT == 180
CARRY_TIMEOUT == 500
EXPLORE_MIN == 300
EXPLORE_SPAN == 200
NURSE_ENTER_AFTER == 30
NURSE_FORAGE_AFTER == 120
NURSE_TIMEOUT == 600
HUNGRY_TIMEOUT == 300
FORAGE_NIBBLE == 80
MEAL_ENERGY == 400

\* is pheromone strength v above num/100 ?
Above(v, num) == v * 100 > num * PhOne

RECURSIVE DepositGrains(_, _, _, _, _, _)
DepositGrains(g, eX, gx, n, side, k) ==
  IF n <= 0 THEN g
  ELSE Only({DepositGrains(h, eX, gx, n - 1, side, k) :
               h \in {depositSand(g, eX, gx, side, k)}})

RECURSIVE DropGrains(_, _, _, _)
DropGrains(g, tx, ty, n) ==
  IF n <= 0 THEN g
  ELSE Only({DropGrains(h, tx, ty, n - 1) : h \in {haulDrop(g, tx, ty)}})

HungryLarvae(S) ==
  {i \in DOMAIN S.brood :
     S.brood[i].stage = BROOD_LARVA /\ S.brood[i].fed < LARVA_FEEDINGS_NEEDED}

TotalFood(list) ==
  LET RECURSIVE Sum(_)
      Sum(k) == IF k = 0 THEN 0 ELSE list[k].amount + Sum(k - 1)
  IN Sum(Len(list))

\* _evaluateInitiative while the colony has no goal snapshot and no directive
\* (both stay null until the first goal update and the first directive)
_evaluateInitiative(S, a, s, rnd) ==
  IF s.nearestFood # 0 /\ rnd.forage THEN _changeState(a, ST_FORAGE)
  ELSE IF Above(s.foodGrad.strength, 10) /\ rnd.forage THEN _changeState(a, ST_FORAGE)
  ELSE IF S.digPriority > NUDGE_PRIORITY /\ a.stateTimer > NUDGE_AFTER /\ rnd.nudge
  THEN _changeState(a, ST_ENTER)
  ELSE a

\* _assignUndergroundTask
_assignUndergroundTask(S, s, rnd) ==
  IF Above(s.digGrad.strength, 5) THEN "dig" ELSE rnd.task

FEED_RADIUS == 500

\* _findHungryLarva: index of the nearest larva still short of feedings and
\* closer than 500 pixels (the first of equally near ones), 0 when there is none
_findHungryLarva(S, a) ==
  LET cands == {i \in HungryLarvae(S) :
                  Dist2(S.brood[i], a) \div (PScale * PScale) < FEED_RADIUS * FEED_RADIUS}
  IN IF cands = {} THEN 0
     ELSE CHOOSE i \in cands :
            \A j \in cands :
              Dist2(S.brood[i], a) < Dist2(S.brood[j], a)
              \/ (Dist2(S.brood[i], a) = Dist2(S.brood[j], a) /\ i <= j)

\* within AF.CELL * 3 pixels of the ant
\* AF.colony.findChamber: the index of the first chamber of the type, 0 when
\* there is none
findChamber(S, type) ==
  LET of == {i \in DOMAIN S.chambers : S.chambers[i].type = type}
  IN IF of = {} THEN 0 ELSE CHOOSE i \in of : \A j \in of : i <= j

\* the food store a carrier adds to in the chamber c: the first one closer
\* than four cells to the chamber's centre, 0 when there is none
StoreIn(S, c) ==
  LET near == {i \in DOMAIN S.foodStores :
                 Dist2(S.foodStores[i], c) < (CELL * 4 * PScale) * (CELL * 4 * PScale)}
  IN IF near = {} THEN 0 ELSE CHOOSE i \in near : \A j \in near : i <= j

\* _think, case CARRY: store the food in the FOOD chamber when underground
\* and near it, head for it when underground and far; otherwise give up
\* after the timeout, or put the food down at the surface
CarryThinks(S, a, s, rnd) ==
  LET fc == findChamber(S, CHAMBER_FOOD)
      c == S.chambers[fc]
      st == StoreIn(S, c)
      empty == [a EXCEPT !.carrying = FALSE]
  IN IF fc # 0 /\ s.underground
     THEN IF Dist2(c, a) < (CELL * 6 * PScale) * (CELL * 6 * PScale)
          THEN [S |-> IF st # 0 THEN [S EXCEPT !.foodStores[st].amount = @ + 1]
                      ELSE [S EXCEPT !.foodStores =
                              Append(@, [x |-> c.x + rnd.step[1], y |-> c.y + rnd.step[2],
                                         amount |-> 1])],
                a |-> _changeState(empty, ST_IDLE)]
          ELSE [S |-> S, a |-> a]
     ELSE IF a.stateTimer > CARRY_TIMEOUT
     THEN [S |-> S, a |-> _changeState(empty, ST_IDLE)]
     ELSE IF s.atSurface
     THEN [S |-> IF Len(S.chambers) > 0
                 THEN [S EXCEPT !.foods = Append(@, [x |-> a.x + rnd.step[1],
                                                     y |-> a.y, amount |-> 1])]
                 ELSE S,
           a |-> _changeState(empty, ST_IDLE)]
     ELSE [S |-> S, a |-> a]

InReach(item, a) == Dist2(item, a) < (CELL * 3 * PScale) * (CELL * 3 * PScale)

\* _think, case NURSE, once the nurse is underground: feed the nearest hungry
\* larva in reach, else fetch food from a store in reach, else give up
NurseTends(S, a) ==
  LET t == _findHungryLarva(S, a)
      f == _findNearestFoodStore(S, a)
      item == IF f[1] = "store" THEN S.foodStores[f[2]] ELSE S.foods[f[2]]
      fedS == [S EXCEPT !.brood[t].fed = @ + 1]
      fedA == [a EXCEPT !.carryingFood = @ - 1]
  IN IF a.carryingFood > 0 /\ t # 0 /\ InReach(S.brood[t], a)
     THEN [S |-> fedS,
           a |-> IF fedA.carryingFood <= 0 /\ HungryLarvae(fedS) = {}
                 THEN _changeState(fedA, ST_IDLE) ELSE fedA]
     ELSE IF a.carryingFood <= 0 /\ f[1] # "none" /\ InReach(item, a)
     THEN [S |-> IF f[1] = "store"
                 THEN [S EXCEPT !.foodStores[f[2]].amount = @ - 1]
                 ELSE [S EXCEPT !.foods[f[2]].amount = @ - 1],
           a |-> [a EXCEPT !.carryingFood = 1]]
     ELSE IF a.carryingFood <= 0
             /\ TotalFood(S.foodStores) + TotalFood(S.foods) <= 0
             /\ a.stateTimer > NURSE_FORAGE_AFTER
     THEN [S |-> S, a |-> _changeState(a, ST_FORAGE)]
     ELSE IF HungryLarvae(S) = {} /\ a.carryingFood <= 0
     THEN [S |-> S, a |-> _changeState(a, ST_IDLE)]
     ELSE IF a.stateTimer > NURSE_TIMEOUT
     THEN [S |-> S, a |-> _changeState([a EXCEPT !.carryingFood = 0], ST_IDLE)]
     ELSE [S |-> S, a |-> a]

\* the per-state transition table of _think
ThinkState(S, a, s, rnd) ==
  CASE a.state = ST_IDLE ->
         LET b == IF a.stateTimer > IDLE_INITIATIVE_AFTER
                  THEN _evaluateInitiative(S, a, s, rnd) ELSE a
         IN IF b # a THEN [S |-> S, a |-> b]
            ELSE IF TimedOut(a.stateTimer * 2, B_ENTER_PATIENCE, 2 * B_ENTER_PATIENCE,
                             rnd.patience)
            THEN [S |-> S, a |-> _changeState(a, ST_ENTER)]
            ELSE [S |-> S, a |-> a]
    [] a.state = ST_ENTER ->
         IF s.underground
         THEN [S |-> S,
               a |-> _changeState(a, IF _assignUndergroundTask(S, s, rnd) = "dig"
                                     THEN ST_DIG ELSE ST_EXPLORE)]
         ELSE [S |-> S, a |-> a]
    [] a.state = ST_DIG ->
         LET b == [a EXCEPT !.maxSandCarry = Tun(S, "sandCarryMax")]
         IN IF b.carryingSand >= b.maxSandCarry
            THEN [S |-> S, a |-> _changeState(b, ST_HAUL)]
            ELSE IF s.atSurface /\ b.stateTimer > DIG_SURFACE_AFTER
            THEN [S |-> S, a |-> _changeState(b, ST_IDLE)]
            ELSE [S |-> S, a |-> b]
    [] a.state = ST_HAUL ->
         IF s.atSurface
         THEN [S |-> [S EXCEPT !.grid = DepositGrains(S.grid, S.entranceX, s.gx,
                                                     a.carryingSand, rnd.side, rnd.k)],
               a |-> [_changeState(a, ST_IDLE) EXCEPT !.carryingSand = 0]]
         ELSE IF a.stuck >= B_STUCK_DROP * SScale
         THEN [S |-> S, a |-> [_changeState(a, ST_EXPLORE) EXCEPT !.carryingSand = 0]]
         ELSE IF a.stateTimer > HAUL_TIMEOUT
         THEN [S |-> [S EXCEPT !.grid = DropGrains(S.grid, s.gx + rnd.drop[1],
                                                  s.gy + rnd.drop[2], a.carryingSand)],
               a |-> [_changeState(a, ST_DIG) EXCEPT !.carryingSand = 0]]
         ELSE [S |-> S, a |-> a]
    [] a.state = ST_FORAGE ->
         IF s.nearestFood # 0
            /\ Dist2(S.foods[s.nearestFood], a) < (CELL * 3 * PScale) * (CELL * 3 * PScale)
         THEN [S |-> [S EXCEPT !.foods[s.nearestFood].amount = @ - 1],
               a |-> [_changeState(a, ST_CARRY) EXCEPT
                        !.carrying = TRUE,
                        !.energy = Min(a.energy + FORAGE_NIBBLE * EScale, MaxEnergy(S))]]
         ELSE IF a.stateTimer > FORAGE_TIMEOUT /\ s.foodGrad.strength * 100 < 2 * PhOne
                 /\ s.nearestFood = 0
         THEN [S |-> S, a |-> _changeState(a, ST_EXPLORE)]
         ELSE [S |-> S, a |-> a]
    [] a.state = ST_CARRY -> CarryThinks(S, a, s, rnd)
    [] a.state = ST_EXPLORE ->
         IF Above(s.digGrad.strength, 15) /\ rnd.join /\ S.digPriority > JOIN_PRIORITY
         THEN [S |-> S, a |-> _changeState(a, ST_DIG)]
         ELSE IF Above(s.foodGrad.strength, 10) /\ rnd.forage
         THEN [S |-> S, a |-> _changeState(a, ST_FORAGE)]
         ELSE IF TimedOut(a.stateTimer, EXPLORE_MIN, EXPLORE_SPAN, rnd.patience)
         THEN [S |-> S, a |-> _changeState(a, IF a.carryingSand > 0 THEN ST_HAUL ELSE ST_IDLE)]
         ELSE [S |-> S, a |-> a]
    [] a.state = ST_NURSE ->
         IF s.atSurface /\ Len(S.brood) = 0
         THEN [S |-> S, a |-> _changeState(a, ST_IDLE)]
         ELSE IF s.atSurface /\ a.stateTimer > NURSE_ENTER_AFTER
         THEN [S |-> S, a |-> _changeState(a, ST_ENTER)]
         ELSE NurseTends(S, a)
    [] a.state = ST_HUNGRY ->
         LET f == _findNearestFoodStore(S, a)
             item == IF f[1] = "store" THEN S.foodStores[f[2]] ELSE S.foods[f[2]]
         IN IF f[1] # "none" /\ Dist2(item, a) < (CELL * 3 * PScale) * (CELL * 3 * PScale)
            THEN [S |-> IF f[1] = "store"
                        THEN [S EXCEPT !.foodStores[f[2]].amount = @ - 1]
                        ELSE [S EXCEPT !.foods[f[2]].amount = @ - 1],
                  a |-> [_changeState(a, ST_IDLE) EXCEPT
                           !.energy = Min(a.energy + MEAL_ENERGY * EScale, MaxEnergy(S))]]
            ELSE IF a.stateTimer > HUNGRY_TIMEOUT /\ f[1] = "none"
            THEN [S |-> S,
                  a |-> [_changeState(a, ST_REST) EXCEPT !.restDuration = B_REST_DUR_MAX]]
            ELSE [S |-> S, a |-> a]
    [] a.state = ST_REST ->
         LET b == [a EXCEPT !.energy = Min(a.energy + EScale \div 2, MaxEnergy(S))]
         IN IF b.stateTimer > b.restDuration
            THEN [S |-> S,
                  a |-> _changeState([b EXCEPT !.timeSinceRest = 0],
                                     IF b.prevState # ST_REST THEN b.prevState ELSE ST_IDLE)]
            ELSE [S |-> S, a |-> b]
    [] OTHER -> [S |-> S, a |-> a]

\* _think: rest, then hunger, then the stuck escape, then the state table
_think(S, a, s, rnd) ==
  IF a.state # ST_REST /\ RestDue(S, a, rnd)
     /\ (a.energy < REST_ENERGY * EScale \/ a.timeSinceRest > B_REST_MAX)
  THEN [S |-> S, a |-> [_changeState(a, ST_REST) EXCEPT !.restDuration = rnd.restDur]]
  ELSE IF a.state \notin {ST_REST, ST_HUNGRY} /\ ~a.isQueen
          /\ a.energy < B_HUNGER_THRESHOLD * EScale
  THEN [S |-> S, a |-> _changeState([a EXCEPT !.carrying = FALSE], ST_HUNGRY)]
  ELSE IF a.stuck >= B_STUCK_TELEPORT * SScale THEN [S |-> S, a |-> _unstick(S, a)]
  ELSE ThinkState(S, a, s, rnd)

NEAR_SURFACE_DEPTH == 40

\* a dig call that clears or weakens the cell but never counts it
DigIn_DropsCount(S, x, y) ==
  [S EXCEPT !.grid = dig(S.grid, S.totalDug, x, y).grid,
            !.digLog = Append(@, IF InBounds(x, y) THEN Cell(S.grid, Idx(x, y)) ELSE -1)]

\* AF.terrain.dig on the colony; digLog notes the hardness each call met
\* (-1 outside the grid)
DigIn(S, x, y) ==
  LET r == dig(S.grid, S.totalDug, x, y)
  IN [S EXCEPT !.grid = r.grid, !.totalDug = r.totalDug,
               !.digLog = Append(@, IF InBounds(x, y) THEN Cell(S.grid, Idx(x, y)) ELSE -1)]

DigRet(S, x, y) == dig(S.grid, S.totalDug, x, y).ret

TakeSand(a, dug) ==
  IF dug # 0 THEN [a EXCEPT !.carryingSand = Min(@ + 1, a.maxSandCarry)] ELSE a

\* _moveEnter: walk to the entrance column, then sink a one-cell shaft
_moveEnter(S, a, s, rnd) ==
  IF S.entranceX < 0
  THEN [S |-> [S EXCEPT !.entranceX = s.gx], a |-> a, v |-> rnd.step]
  ELSE LET targetPx == CellCentre(S.entranceX)
           dx == targetPx - a.x
       IN IF s.atSurface /\ Abs(dx) > CELL * PScale
          THEN [S |-> S, a |-> a, v |-> <<Sign(dx) * Abs(rnd.step[1]), rnd.step[2]>>]
          ELSE LET b == [a EXCEPT !.x = targetPx]
               IN IF b.digCD <= 0
                  THEN [S |-> DigIn(S, S.entranceX, s.gy + 1),
                        a |-> [TakeSand(b, DigRet(S, S.entranceX, s.gy + 1))
                                 EXCEPT !.digCD = B_DIG_CD_BASE],
                        v |-> <<0, Abs(rnd.step[2])>>]
                  ELSE [S |-> S, a |-> b, v |-> <<0, Abs(rnd.step[2])>>]

\* _moveDig near the surface (every row of this grid is within 40 rows of
\* it): keep to the entrance column, dig the cell ahead and the own cell
_moveDig(S, a, s, rnd) ==
  LET targetX == CellCentre(S.entranceX)
      nearSurface == s.gy - SURFACE < NEAR_SURFACE_DEPTH
      snap == nearSurface /\ S.entranceX > 0 /\ Abs(a.x - targetX) > CELL * PScale
      a1 == IF snap THEN [a EXCEPT !.x = targetX] ELSE a
      dgx == s.gx + rnd.digOff[1]
      dgy == s.gy + rnd.digOff[2]
      canDig == a1.digCD <= 0 /\ a1.carryingSand < a1.maxSandCarry
      ahead == canDig /\ isSolid(S.grid, dgx, dgy) /\ DigRet(S, dgx, dgy) # 0
      S1 == IF canDig /\ isSolid(S.grid, dgx, dgy) THEN DigIn(S, dgx, dgy) ELSE S
      a2 == IF ahead
            THEN [a1 EXCEPT !.carryingSand = @ + 1,
                            !.digCD = B_DIG_CD_BASE + rnd.cdExtra,
                            !.stuck = 0,
                            !.energy = @ - EScale \div 5]
            ELSE a1
      own == canDig /\ isSolid(S1.grid, s.gx, s.gy)
      S2 == IF own THEN DigIn(S1, s.gx, s.gy) ELSE S1
      a3 == IF own THEN TakeSand(a2, DigRet(S1, s.gx, s.gy)) ELSE a2
  IN [S |-> S2, a |-> a3,
      v |-> <<rnd.step[1], IF s.atSurface THEN Max(rnd.step[2], 0) ELSE rnd.step[2]>>]

\* the cells _moveUp probes for an open way (upper half plane, distance 1..3)
UpOffsets ==
  {<<-3, -1>>, <<-3, 0>>, <<-3, 1>>, <<-2, -2>>, <<-2, -1>>, <<-2, 0>>, <<-2, 1>>,
   <<-1, -3>>, <<-1, -2>>, <<-1, -1>>, <<-1, 0>>, <<0, -3>>, <<0, -2>>, <<0, -1>>,
   <<1, -3>>, <<1, -2>>, <<1, -1>>, <<1, 0>>, <<2, -2>>, <<2, -1>>, <<2, 0>>,
   <<3, -1>>, <<3, 0>>}

\* _moveUp: head for the surface; walled in, dig upward (the sand is not
\* picked up)
_moveUp(S, a, s, rnd) ==
  LET foundOpen == \E o \in UpOffsets : ~isSolid(S.grid, s.gx + o[1], s.gy + o[2])
      digs == ~foundOpen /\ a.digCD <= 0
      up == digs /\ isSolid(S.grid, s.gx, s.gy - 1)
      S1 == IF up THEN DigIn(S, s.gx, s.gy - 1) ELSE S
      a1 == IF up THEN [a EXCEPT !.digCD = B_DIG_CD_BASE] ELSE a
      diag == digs /\ isSolid(S1.grid, s.gx + rnd.side, s.gy - 1)
      S2 == IF diag THEN DigIn(S1, s.gx + rnd.side, s.gy - 1) ELSE S1
  IN [S |-> S2, a |-> a1, v |-> <<rnd.step[1], -Abs(rnd.step[2])>>]

\* _act, case CARRY: toward the FOOD chamber when underground and there is
\* one, else up and out
_moveCarry(S, a, s, rnd) ==
  IF findChamber(S, CHAMBER_FOOD) # 0 /\ s.underground
  THEN [S |-> S, a |-> a, v |-> rnd.step]
  ELSE _moveUp(S, a, s, rnd)

\* _moveHungry: toward food if there is any, else up and out
_moveHungry(S, a, s, rnd) ==
  IF _findNearestFoodStore(S, a)[1] # "none" \/ s.nearestFood # 0
  THEN [S |-> S, a |-> a, v |-> rnd.step]
  ELSE IF s.underground THEN _moveUp(S, a, s, rnd)
  ELSE [S |-> S, a |-> a, v |-> rnd.step]

\* _act: the move of the current state, then its pheromone deposit at the
\* sensed cell
\* the pheromone deposit of _act for an ant in state st, on the colony M the
\* move has produced
Deposit(M, st, s) ==
  LET num == CASE st = ST_IDLE -> 4
               [] st = ST_ENTER -> 10
               [] st \in {ST_DIG, ST_CARRY} -> 15
               [] st = ST_HAUL -> 12
               [] st \in {ST_FORAGE, ST_NURSE} -> 6
               [] st = ST_EXPLORE -> 8
               [] st = ST_HUNGRY -> 2
               [] OTHER -> 0
      dugHere == IF st = ST_DIG THEN phSet(M.phDig, s.gx, s.gy, PhOf(25, 100)) ELSE M.phDig
      foodHere == IF st = ST_CARRY THEN phSet(M.phFood, s.gx, s.gy, PhOf(30, 100))
                  ELSE M.phFood
  IN IF num = 0 THEN M
     ELSE [M EXCEPT !.phDig = dugHere, !.phFood = foodHere,
                    !.phTrail = phSet(@, s.gx, s.gy, PhOf(num, 100))]

\* the move m of _act followed by the deposit
Moved(m, st, s) == [S |-> Deposit(m.S, st, s), a |-> m.a, v |-> m.v]

_act(S, a, s, rnd) ==
  Moved(CASE a.state = ST_ENTER -> _moveEnter(S, a, s, rnd)
          [] a.state = ST_DIG -> _moveDig(S, a, s, rnd)
          [] a.state = ST_HAUL -> _moveUp(S, a, s, rnd)
          [] a.state = ST_CARRY -> _moveCarry(S, a, s, rnd)
          [] a.state = ST_HUNGRY -> _moveHungry(S, a, s, rnd)
          [] OTHER -> [S |-> S, a |-> a, v |-> rnd.step],
        a.state, s)

\* the collision step shared by _physics and _queenBehavior: where the ant
\* ends up, and how hard it was blocked (0 free, 1 sliding, 2 walled in)
Collide(S, a, v, passes) ==
  LET gx == gxOf(a)
      gy == gyOf(a)
      nx == a.x + v[1]
      ny == a.y + v[2]
      ngx == Trunc(nx, CELL * PScale)
      ngy == Trunc(ny, CELL * PScale)
  IN IF isSolid(S.grid, ngx, ngy) /\ ~passes
     THEN IF ~isSolid(S.grid, gx, ngy) THEN [x |-> a.x, y |-> ny, hit |-> 1]
          ELSE IF ~isSolid(S.grid, ngx, gy) THEN [x |-> nx, y |-> a.y, hit |-> 1]
          ELSE [x |-> a.x, y |-> a.y, hit |-> 2]
     ELSE [x |-> nx, y |-> ny, hit |-> 0]

\* _physics: v is the velocity of this frame
_physics(S, a, v) ==
  LET c == Collide(S, a, v, a.state \in {ST_DIG, ST_ENTER})
      vel2 == v[1] * v[1] + v[2] * v[2]
      eased == IF vel2 > 5 * 5 THEN Max(0, a.stuck - SScale \div 2) ELSE a.stuck
      stuck == IF c.hit = 1 THEN a.stuck + (3 * SScale) \div 10
               ELSE IF c.hit = 2 THEN a.stuck + (3 * SScale) \div 2
               ELSE IF vel2 < 2 * 2 /\ a.state \notin {ST_REST, ST_IDLE}
               THEN eased + (15 * SScale) \div 100
               ELSE eased
  IN [a EXCEPT !.x = Clamp(c.x, (FRAME + CELL) * PScale, (W - FRAME - CELL) * PScale),
               !.y = Clamp(c.y, (SURFACE_PX - CELL * 5) * PScale,
                           H * PScale - (FRAME * 5 * PScale) \div 2 - CELL * PScale),
               !.stuck = stuck]

\* _queenBehavior before the shaft is ready (no goal snapshot yet): drift
\* near the entrance, collide with terrain, stay in the surface band; the
\* queen's energy is never read or written
_queenBehavior(S, a, rnd) ==
  LET c == Collide(S, a, rnd.step, FALSE)
  IN [a EXCEPT !.x = Clamp(c.x, (FRAME + CELL * 3) * PScale, (W - FRAME - CELL * 3) * PScale),
               !.y = Clamp(c.y, (SURFACE_PX - CELL * 4) * PScale,
                           (SURFACE_PX + CELL * 3) * PScale),
               !.state = ST_IDLE]

Put(S, i, a) == [S EXCEPT !.ants[i] = a]

\* an energy test placed before the drain, with a strict comparison
Starved_TestedBeforeDrain(a) == a.energy + EScale \div 10 < 0

\* the energy test after the drain: the ant has starved
Starved(a) == a.energy <= 0

\* update after _act has produced m: _physics, and the ant goes back to its
\* place in the list
Acted(m, i) ==
  Only({[S |-> Put(r.S, i, _physics(r.S, r.a, r.v)), dead |-> FALSE, ran |-> TRUE] :
          r \in {m}})

\* update after _think has produced t: _act has no move and no deposit for
\* a resting ant
Thought(t, i, s, rnd) ==
  Only({Acted(IF r.a.state = ST_REST THEN [S |-> r.S, a |-> r.a, v |-> rnd.step]
              ELSE _act(r.S, r.a, s, rnd), i) :
          r \in {t}})

\* update after _sense has produced s
Sensed(S, i, a, s, rnd) ==
  Only({Thought(_think(S, a, seen, rnd), i, seen, rnd) : seen \in {s}})

\* AF.behavior.update for the ant at index i: the colony after it, whether
\* the ant marked itself dead, and whether it got to sense, think and act
update(S, i, rnd) ==
  LET a0 == S.ants[i]
  IN IF a0.isQueen
     THEN [S |-> Put(S, i, _queenBehavior(S, a0, rnd)), dead |-> FALSE, ran |-> TRUE]
     ELSE
       LET a1 == [a0 EXCEPT !.digCD = IF @ > 0 THEN @ - 1 ELSE @,
                            !.stateTimer = @ + 1,
                            !.timeSinceRest = @ + 1,
                            !.energy = @ - EScale \div 10]
       IN IF Starved(a1)
          THEN [S |-> Put(S, i, [a1 EXCEPT !.energy = 0]), dead |-> TRUE, ran |-> FALSE]
          ELSE IF a1.pauseTimer > 0
          THEN [S |-> Put(S, i, [a1 EXCEPT !.pauseTimer = @ - 1]),
                dead |-> FALSE, ran |-> FALSE]
          ELSE IF a1.state \notin {ST_REST, ST_HAUL} /\ rnd.pause > 0
          THEN [S |-> Put(S, i, [a1 EXCEPT !.pauseTimer = rnd.pause]),
                dead |-> FALSE, ran |-> FALSE]
          ELSE
            Only({Sensed(S, i, b, _sense(S, b), rnd) : b \in {a1}})

\* the colony after update returned r for the ant at index i: ranLog notes an
\* ant that got to sense, think and act, and a dead ant is spliced out
Splice(r, i) ==
  Only({[u.S EXCEPT !.ranLog = IF u.ran THEN @ \cup {i} ELSE @,
                    !.ants = IF u.dead THEN RemoveAt(@, i) ELSE @,
                    !.hasQueen = IF u.dead /\ u.S.ants[i].isQueen THEN FALSE ELSE @] :
          u \in {r}})

\* the maturity step of the ant loop: a worker below full maturity ages by
\* 0.00003; "undefined < 1.0" is false, so an ant without the property keeps
\* none
Matured(r, i) ==
  LET a == r.S.ants[i]
  IN IF ~a.isQueen /\ a.maturity # NoMaturity /\ a.maturity < MScale
     THEN [r EXCEPT !.S.ants[i].maturity = Min(MScale, @ + MATURITY_STEP)]
     ELSE r

\* the ant loop of AF.colony.tick, from the last ant down to the first:
\* update, then splice out an ant that marked itself dead
\* (the span hi down to lo, the upper half first)
RECURSIVE UpdateAnts(_, _, _, _)
UpdateAnts(S, hi, lo, rnd) ==
  IF hi < lo THEN S
  ELSE IF hi = lo THEN Splice(Matured(update(S, hi, rnd), hi), hi)
  ELSE Only({UpdateAnts(T, (hi + lo) \div 2, lo, rnd) :
               T \in {UpdateAnts(S, hi, (hi + lo) \div 2 + 1, rnd)}})

\* a queen that still lays when the colony is at the population cap
LayEgg_AtTheCap(S, rnd) ==
  LET queens == {i \in DOMAIN S.ants : S.ants[i].isQueen}
  IN IF S.frame % Tun(S, "queenSpawnRate") = 0 /\ S.hasQueen
        /\ Len(S.ants) + Len(S.brood) <= MAX_POPULATION /\ queens # {}
        /\ (TotalFood(S.foodStores) + TotalFood(S.foods) > 0 \/ Len(S.brood) < 3)
     THEN LET q == S.ants[CHOOSE i \in queens : \A j \in queens : i <= j]
              eggX == q.x + rnd.egg[1]
              eggY == q.y + rnd.egg[2]
              inSand == isSolid(S.grid, Trunc(eggX, CELL * PScale), Trunc(eggY, CELL * PScale))
          IN [S EXCEPT !.brood = Append(@, [id |-> S.nextBroodId, stage |-> BROOD_EGG,
                                            x |-> IF inSand THEN q.x ELSE eggX,
                                            y |-> IF inSand THEN q.y ELSE eggY,
                                            age |-> 0, fed |-> 0]),
                       !.nextBroodId = @ + 1]
     ELSE S

\* the queen lays an egg every queenSpawnRate frames
LayEgg(S, rnd) ==
  LET queens == {i \in DOMAIN S.ants : S.ants[i].isQueen}
  IN IF S.frame % Tun(S, "queenSpawnRate") = 0 /\ S.hasQueen
        /\ Len(S.ants) + Len(S.brood) < MAX_POPULATION /\ queens # {}
        /\ (TotalFood(S.foodStores) + TotalFood(S.foods) > 0 \/ Len(S.brood) < 3)
     THEN LET q == S.ants[CHOOSE i \in queens : \A j \in queens : i <= j]
              eggX == q.x + rnd.egg[1]
              eggY == q.y + rnd.egg[2]
              inSand == isSolid(S.grid, Trunc(eggX, CELL * PScale), Trunc(eggY, CELL * PScale))
          IN [S EXCEPT !.brood = Append(@, [id |-> S.nextBroodId, stage |-> BROOD_EGG,
                                            x |-> IF inSand THEN q.x ELSE eggX,
                                            y |-> IF inSand THEN q.y ELSE eggY,
                                            age |-> 0, fed |-> 0]),
                       !.nextBroodId = @ + 1]
     ELSE S

\* a larva that pupates whether it was fed or not
LarvaPupates_Unfed(b) == b.age >= BROOD_TIME_LARVA
\* the larva is old enough and fed enough to become a pupa
LarvaPupates(b) == b.age >= BROOD_TIME_LARVA /\ b.fed >= LARVA_FEEDINGS_NEEDED

\* a larva given up as soon as the larval time is over
LarvaStarves_Early(b) == b.age > BROOD_TIME_LARVA /\ b.fed < LARVA_FEEDINGS_NEEDED
\* an unfed larva dies after double the larval time
LarvaStarves(b) == b.age > BROOD_TIME_LARVA * 2 /\ b.fed < LARVA_FEEDINGS_NEEDED

\* the body of the brood loop for the item at index i
DevelopOne(S, i, rnd) ==
  LET b == [S.brood[i] EXCEPT !.age = @ + 1]
      pupated == IF b.stage = BROOD_LARVA /\ LarvaPupates(b)
                 THEN [b EXCEPT !.stage = BROOD_PUPA, !.age = 0] ELSE b
  IN IF b.stage = BROOD_EGG /\ b.age >= BROOD_TIME_EGG
     THEN [S EXCEPT !.brood[i] = [b EXCEPT !.stage = BROOD_LARVA, !.age = 0, !.fed = 0]]
     ELSE IF b.stage = BROOD_LARVA
     THEN IF LarvaStarves(pupated)
          THEN [S EXCEPT !.brood = RemoveAt(@, i)]
          ELSE [S EXCEPT !.brood[i] = pupated]
     ELSE IF b.stage = BROOD_PUPA /\ b.age >= BROOD_TIME_PUPA
     THEN [S EXCEPT !.ants = Append(@, [antCreate(S.nextAntId, b.x, b.y, FALSE,
                                                  rnd.babyE, rnd.msc)
                                          EXCEPT !.energy = rnd.babyE, !.maturity = 0]),
                    !.nextAntId = @ + 1,
                    !.brood = RemoveAt(@, i)]
     ELSE [S EXCEPT !.brood[i] = b]

\* the brood loop over the items hi down to lo (the upper half first)
RECURSIVE DevelopSpan(_, _, _, _)
DevelopSpan(S, hi, lo, rnd) ==
  IF hi < lo THEN S
  ELSE IF hi = lo THEN DevelopOne(S, hi, rnd)
  ELSE Only({DevelopSpan(T, (hi + lo) \div 2, lo, rnd) :
               T \in {DevelopSpan(S, hi, (hi + lo) \div 2 + 1, rnd)}})

\* brood development, from the last brood item down to the first
DevelopBrood(S, i, rnd) == DevelopSpan(S, i, 1, rnd)

(***************************************************************************)
(* Colony goals (AF.behavior.updateColonyGoals)                            *)
(*                                                                         *)
(* The page's grid has 227 rows, the model's has ROWS: one row of the      *)
(* model stands for RowScale rows when the shaft depth is measured against *)
(* the depth targets.                                                      *)
(***************************************************************************)
RowScale == 12

GOALS_EVERY == 120
TARGET_SHAFT_DEPTH == 60
TARGET_SHAFT_STEP == 20
TARGET_SHAFT_MAX == 150
TARGET_GALLERIES == 3
TARGET_CHAMBERS == 2
FOOD_RESERVE_MIN == 5
CROWD == 15
HUNGRY_DIG_PRIORITY == 4

\* the amounts of a food list, summed
RECURSIVE Stored(_)
Stored(stores) ==
  IF stores = <<>> THEN 0
  ELSE IF Len(stores) = 1 THEN stores[1].amount
  ELSE Stored(SubSeq(stores, 1, Len(stores) \div 2))
         + Stored(SubSeq(stores, Len(stores) \div 2 + 1, Len(stores)))

\* the goals object a colony starts with
FreshGoals ==
  [shaftDepth |-> 0, targetShaftDepth |-> TARGET_SHAFT_DEPTH,
   galleryCount |-> 0, targetGalleries |-> TARGET_GALLERIES,
   chamberCount |-> 0, targetChambers |-> TARGET_CHAMBERS,
   foodReserves |-> 0, needsFood |-> FALSE, phase |-> "shaft",
   broodCount |-> 0, hungryLarvae |-> 0, needsNurses |-> FALSE]

\* the open run of the entrance column below the surface row, in rows
RECURSIVE OpenRun(_, _, _)
OpenRun(g, eX, y) ==
  IF y < ROWS /\ Cell(g, Idx(eX, y)) = 0 THEN 1 + OpenRun(g, eX, y + 1) ELSE 0

\* the phase a goals object with fresh measurements is in
PhaseOf(g) ==
  IF g.shaftDepth * 10 < g.targetShaftDepth * 6 THEN "shaft"
  ELSE IF g.galleryCount < g.targetGalleries THEN "gallery"
  ELSE IF g.chamberCount < g.targetChambers THEN "chamber"
  ELSE "expand"

\* the measurements of updateColonyGoals written into the goals object g
Measured(S, g) ==
  [g EXCEPT
     !.shaftDepth = IF S.entranceX > 0
                    THEN OpenRun(S.grid, S.entranceX, SURFACE + 1) * RowScale ELSE @,
     !.chamberCount = Len(S.chambers),
     !.galleryCount = Max(0, Len(S.chambers) - 1),
     !.foodReserves = Stored(S.foods),
     !.needsFood = Stored(S.foods) < FOOD_RESERVE_MIN /\ Len(S.ants) > CROWD,
     !.broodCount = Len(S.brood),
     !.hungryLarvae = Cardinality(HungryLarvae(S)),
     !.needsNurses = Len(S.brood) > 0]

\* the phase progression: the expand phase raises the three targets
Progressed(g) ==
  IF PhaseOf(g) = "expand"
  THEN [g EXCEPT !.phase = "expand",
                 !.targetShaftDepth = Min(TARGET_SHAFT_MAX, @ + TARGET_SHAFT_STEP),
                 !.targetGalleries = @ + 2,
                 !.targetChambers = @ + 1]
  ELSE [g EXCEPT !.phase = PhaseOf(g)]

\* the dig priority of a phase
PhasePriority(phase) ==
  CASE phase = "shaft" -> 9
    [] phase = "gallery" -> 7
    [] phase = "chamber" -> 5
    [] OTHER -> 6

\* a goal update that sets the dig priority of the phase whatever the directive
WithPriority_PhaseWins(S, g) ==
  [S EXCEPT !.colonyGoals = <<g>>,
            !.digPriority = IF g.needsFood THEN Min(PhasePriority(g.phase), HUNGRY_DIG_PRIORITY)
                            ELSE PhasePriority(g.phase)]

\* updateColonyGoals once the goals object g is computed: the dig priority
\* follows the phase unless a directive with a focus is active, and a hungry
\* colony caps it.  (state.queenUnderground is read by nothing modelled.)
WithPriority(S, g) ==
  LET focused == S.directive # <<>> /\ "focus" \in DOMAIN S.directive[1]
                   /\ S.directive[1].focus # ""
      byPhase == IF focused THEN S.digPriority ELSE PhasePriority(g.phase)
  IN [S EXCEPT !.colonyGoals = <<g>>,
               !.digPriority = IF g.needsFood THEN Min(byPhase, HUNGRY_DIG_PRIORITY)
                               ELSE byPhase]

updateColonyGoals(S) ==
  WithPriority(S, Progressed(Measured(S, IF S.colonyGoals = <<>> THEN FreshGoals
                                         ELSE S.colonyGoals[1])))

(***************************************************************************)
(* Chambers (AF.colony.detectChambers, AF.colony.assignChamberTypes)       *)
(*                                                                         *)
(* On the page a chamber is an open region of 40 cells or more that reaches *)
(* five rows below the surface; on the model's grid the two thresholds are *)
(* ChamberMinCells and ChamberTopRows.  A chamber's x, y are positions,    *)
(* its depth is in hundredths of a row.                                    *)
(***************************************************************************)
ChamberMinCells == 1
ChamberTopRows == 2

DETECT_EVERY == 300
CHAMBER_MARGIN == 10
ROYAL_MIN_SIZE == 50
MIDDEN_MAX_SIZE == 120

\* Math.round of the quotient of two non-negative integers
RoundDiv(n, d) == (2 * n + d) \div (2 * d)

\* the cardinal neighbours of cell i the flood fill enters: inside the grid
\* and not above the surface row
FloodNeighbours(i) ==
  LET x == i % COLS
      y == i \div COLS
  IN {Idx(p[1], p[2]) : p \in {q \in {<<x + 1, y>>, <<x - 1, y>>, <<x, y + 1>>, <<x, y - 1>>} :
                                 q[1] >= 0 /\ q[1] < COLS /\ q[2] >= SURFACE /\ q[2] < ROWS}}

\* the open region the flood fill collects from a frontier
RECURSIVE Flood(_, _, _)
Flood(g, seen, frontier) ==
  Only({IF next = {} THEN seen ELSE Flood(g, seen \cup next, next) :
          next \in {{j \in UNION {FloodNeighbours(i) : i \in frontier} : g[j] = 0} \ seen}})

\* the sum of the columns (or, with byRow, of the rows) of a set of cells
RECURSIVE SumCells(_, _)
SumCells(r, byRow) ==
  IF r = {} THEN 0
  ELSE Only({IF lo = hi THEN (IF byRow THEN lo \div COLS ELSE lo % COLS)
             ELSE SumCells({i \in r : i <= (lo + hi) \div 2}, byRow)
                    + SumCells({i \in r : i > (lo + hi) \div 2}, byRow) :
               lo \in {CHOOSE i \in r : \A j \in r : i <= j},
               hi \in {CHOOSE i \in r : \A j \in r : j <= i}})

\* the type a chamber at grid key <<kx, ky>> inherits from the previous pass:
\* the last typed chamber of the old list with that key
OldType(old, kx, ky) ==
  LET hits == {k \in DOMAIN old :
                 /\ old[k].type # CHAMBER_GENERAL
                 /\ RoundDiv(old[k].x, CELL * PScale) = kx
                 /\ RoundDiv(old[k].y, CELL * PScale) = ky}
  IN IF hits = {} THEN CHAMBER_GENERAL
     ELSE old[CHOOSE k \in hits : \A m \in hits : m <= k].type

\* the chamber record of a region of n cells with coordinate sums sx, sy
ChamberOf(old, n, sx, sy) ==
  [x |-> (sx * CELL * PScale) \div n, y |-> (sy * CELL * PScale) \div n,
   size |-> n, depth |-> (sy * 100) \div n - SURFACE * 100,
   type |-> OldType(old, RoundDiv(sx, n), RoundDiv(sy, n))]

\* the scan of detectChambers over the cells lo..hi (the lower half first):
\* st.vis are the cells already visited, st.out the chambers found so far
RECURSIVE DetectFrom(_, _, _, _, _)
DetectFrom(g, old, lo, hi, st) ==
  IF lo > hi THEN st
  ELSE IF lo = hi
  THEN IF g[lo] # 0 \/ lo \in st.vis THEN st
       ELSE Only({[vis |-> st.vis \cup r,
                   out |-> IF Cardinality(r) >= ChamberMinCells
                           THEN Append(st.out, ChamberOf(old, Cardinality(r),
                                                         SumCells(r, FALSE),
                                                         SumCells(r, TRUE)))
                           ELSE st.out] :
                    r \in {Flood(g, {lo}, {lo})}})
  ELSE Only({DetectFrom(g, old, (lo + hi) \div 2 + 1, hi, T) :
               T \in {DetectFrom(g, old, lo, (lo + hi) \div 2, st)}})

detectChambers(S) ==
  [S EXCEPT !.chambers =
     Only({DetectFrom(g, old, (SURFACE + ChamberTopRows) * COLS, NCELLS - 1,
                      [vis |-> {}, out |-> <<>>]).out :
             g \in {S.grid}, old \in {S.chambers}})]

\* the integer square root
Isqrt(v) == CHOOSE k \in 0..(v + 1) : k * k <= v /\ v < (k + 1) * (k + 1)

\* whether the item lies in the chamber: closer to its centre than
\* sqrt(size) * CELL * 0.5 + 10 pixels
Holds(c, item) ==
  LET reach == (Isqrt(c.size * PScale * PScale) * CELL) \div 2 + CHAMBER_MARGIN * PScale
  IN Dist2(item, c) < reach * reach

\* state.ants.find(a => a.isQueen): the index of the first queen, 0 for none
QueenOf(S) ==
  LET qs == {i \in DOMAIN S.ants : S.ants[i].isQueen}
  IN IF qs = {} THEN 0 ELSE CHOOSE i \in qs : \A j \in qs : i <= j

\* the indexes of the chambers ch among `left` sorted by depth, deepest first
\* (sign 1) or shallowest first (sign -1), equal depths in list order
RECURSIVE SortedByDepth(_, _, _)
SortedByDepth(ch, left, sign) ==
  IF left = {} THEN <<>>
  ELSE Only({<<k>> \o SortedByDepth(ch, left \ {k}, sign) :
               k \in {CHOOSE i \in left :
                        \A j \in left : \/ sign * ch[i].depth > sign * ch[j].depth
                                        \/ (ch[i].depth = ch[j].depth /\ i <= j)}})

\* the type the contents of chamber c call for, "" when none does or the
\* type is already given in this pass
ContentsType(S, c, has) ==
  IF QueenOf(S) # 0 /\ Holds(c, S.ants[QueenOf(S)]) /\ CHAMBER_ROYAL \notin has
  THEN CHAMBER_ROYAL
  ELSE IF (\E b \in DOMAIN S.brood : Holds(c, S.brood[b])) /\ CHAMBER_BROOD \notin has
  THEN CHAMBER_BROOD
  ELSE IF (\E f \in DOMAIN S.foodStores : Holds(c, S.foodStores[f]))
          /\ CHAMBER_FOOD \notin has
  THEN CHAMBER_FOOD
  ELSE ""

\* the first loop of assignChamberTypes over the chambers in `order`: the
\* chambers with their new types and the types given in this pass
RECURSIVE ByContents(_, _, _, _)
ByContents(S, ch, order, has) ==
  IF order = <<>> THEN [ch |-> ch, has |-> has]
  ELSE Only({IF t = "" THEN ByContents(S, ch, Tail(order), has)
             ELSE Only({ByContents(S, c2, Tail(order), h2) :
                          c2 \in {[ch EXCEPT ![Head(order)].type = t]},
                          h2 \in {has \cup {t}}}) :
               t \in {ContentsType(S, ch[Head(order)], has)}})

\* the first general chamber of `order` that passes the size test, 0 for none
RECURSIVE FirstGeneral(_, _, _, _)
FirstGeneral(ch, order, lo, hi) ==
  IF order = <<>> THEN 0
  ELSE IF ch[Head(order)].type = CHAMBER_GENERAL
          /\ ch[Head(order)].size >= lo /\ ch[Head(order)].size < hi
  THEN Head(order)
  ELSE FirstGeneral(ch, Tail(order), lo, hi)

Retyped(ch, k, t) == IF k = 0 THEN ch ELSE [ch EXCEPT ![k].type = t]

\* no royal chamber but a queen underground: the deepest large general one
RoyalFallback(S, r) ==
  IF CHAMBER_ROYAL \notin r.has /\ QueenOf(S) # 0
     /\ gyOf(S.ants[QueenOf(S)]) > SURFACE + 2
  THEN [r EXCEPT !.ch = Retyped(@, FirstGeneral(@, SortedByDepth(@, DOMAIN @, 1),
                                                ROYAL_MIN_SIZE, NCELLS + 1),
                                CHAMBER_ROYAL)]
  ELSE r

\* the midden: the shallowest small general chamber
WithMidden(r) ==
  [r EXCEPT !.ch = Retyped(@, FirstGeneral(@, SortedByDepth(@, DOMAIN @, -1),
                                            0, MIDDEN_MAX_SIZE),
                            CHAMBER_MIDDEN)]

\* brood but no brood chamber: the general chamber nearest to the centre of
\* the brood (distances are compared times the number of brood items)
NearestToBrood(S, ch) ==
  LET n == Len(S.brood)
      sx == Stored([i \in DOMAIN S.brood |-> [amount |-> S.brood[i].x]])
      sy == Stored([i \in DOMAIN S.brood |-> [amount |-> S.brood[i].y]])
      D(k) == (ch[k].x * n - sx) * (ch[k].x * n - sx) + (ch[k].y * n - sy) * (ch[k].y * n - sy)
      gen == {k \in DOMAIN ch : ch[k].type = CHAMBER_GENERAL}
  IN IF gen = {} THEN 0
     ELSE CHOOSE k \in gen : \A m \in gen : D(k) < D(m) \/ (D(k) = D(m) /\ k <= m)

BroodFallback(S, r) ==
  IF CHAMBER_BROOD \notin r.has /\ Len(S.brood) > 0
  THEN Retyped(r.ch, NearestToBrood(S, r.ch), CHAMBER_BROOD)
  ELSE r.ch

assignChamberTypes(S) ==
  IF S.chambers = <<>> THEN S
  ELSE [S EXCEPT !.chambers =
          Only({BroodFallback(S, m) :
                  m \in {WithMidden(r) :
                           r \in {RoyalFallback(S, c) :
                                    c \in {ByContents(S, S.chambers,
                                                      SortedByDepth(S.chambers,
                                                                    DOMAIN S.chambers, 1),
                                                      {})}}}})]

DAY_FRAMES == 18000
DECAY_EVERY == 8
GRAVITY_EVERY == 4
CLEAR_EVERY == 8

KeepStocked(list) == SelectSeq(list, LAMBDA f : f.amount > 0)

\* the goal update of AF.colony.tick, every 120 frames
GoalsOn(S) == IF S.frame % GOALS_EVERY = 0 THEN updateColonyGoals(S) ELSE S

\* the chamber pass of AF.colony.tick, every 300 frames
DetectOn(S) ==
  IF S.frame % DETECT_EVERY = 0
  THEN Only({assignChamberTypes(D) : D \in {detectChambers(S)}})
  ELSE S

\* the food lists without their spent items
Restocked(S) == [S EXCEPT !.foods = KeepStocked(@), !.foodStores = KeepStocked(@)]

\* a day counter that advances one frame late
EndOfTick_DayLate(S) ==
  Restocked(DetectOn([S EXCEPT !.simDay = IF S.frame % DAY_FRAMES = 1 THEN @ + 1 ELSE @]))

\* the end of AF.colony.tick: the day counter, the chamber pass, and spent
\* food is dropped
EndOfTick(S) ==
  Restocked(DetectOn([S EXCEPT !.simDay = IF S.frame % DAY_FRAMES = 0 THEN @ + 1 ELSE @]))

\* AF.colony.tick from the brood loop on
BroodOn(S, rnd) == EndOfTick(DevelopBrood(S, Len(S.brood), rnd))

\* AF.colony.tick from the egg laying on
ColonyOn(S, rnd) == BroodOn(LayEgg(S, rnd), rnd)

\* AF.colony.tick from the ant loop on
AntsOn(S, rnd) == ColonyOn(UpdateAnts(S, Len(S.ants), 1, rnd), rnd)

tickAfterGravity(S, g, rnd) ==
  AntsOn([S EXCEPT !.grid = IF S.frame % CLEAR_EVERY = 0
                            THEN clearEntrance(g, S.entranceX) ELSE g], rnd)

\* AF.colony.tick: every colony one tick can produce from S with the random
\* draws rnd (the gravity pass picks the side a grain slides to)
tick(S, rnd) ==
  LET S1 == GoalsOn([S EXCEPT !.frame = @ + 1, !.digLog = <<>>, !.ranLog = {}])
      S2 == IF S1.frame % DECAY_EVERY = 0 THEN decay(S1) ELSE S1
      G == IF S2.frame % GRAVITY_EVERY = 0 THEN gravity(S2.grid, S2.entranceX)
           ELSE {S2.grid}
  IN {tickAfterGravity(S2, g, rnd) : g \in G}

(***************************************************************************)
(* Checkpoints: serialize / deserialize                                    *)
(*                                                                         *)
(* A checkpoint is the JSON object of serialize.  Numbers rounded by       *)
(* toFixed(1) are kept as counts of 0.1; `missing` lists the optional      *)
(* fields the object does not carry; <<>> stands for null.                 *)
(***************************************************************************)
FIXED1 == 10

serializeAnt(a) ==
  [id |-> a.id, x |-> ToFixed(a.x, PScale, FIXED1), y |-> ToFixed(a.y, PScale, FIXED1),
   state |-> a.state, prevState |-> a.prevState,
   energy |-> ToFixed(a.energy, EScale, FIXED1), isQueen |-> a.isQueen,
   carryingSand |-> a.carryingSand, carryingFood |-> a.carryingFood, carrying |-> a.carrying,
   maxSandCarry |-> a.maxSandCarry,
   stuck |-> a.stuck, digCD |-> a.digCD,
   stateTimer |-> a.stateTimer, timeSinceRest |-> a.timeSinceRest,
   maturity |-> ToFixed(IF a.maturity = NoMaturity THEN 0 ELSE a.maturity, MScale, FIXED3)]

\* AF.colony.serialize
serialize(S) ==
  [grid |-> _uint8ToBase64(S.grid),
   phTrail |-> _sparseEncode(S.phTrail),
   phFood |-> _sparseEncode(S.phFood),
   phDig |-> _sparseEncode(S.phDig),
   ants |-> [k \in 1..Len(S.ants) |-> serializeAnt(S.ants[k])],
   foods |-> S.foods, chambers |-> S.chambers, brood |-> S.brood,
   foodStores |-> S.foodStores,
   frame |-> S.frame, totalDug |-> S.totalDug, simDay |-> S.simDay,
   hasQueen |-> S.hasQueen, entranceX |-> S.entranceX,
   digPriority |-> S.digPriority, directive |-> S.directive,
   tuning |-> S.tuning, colonyGoals |-> S.colonyGoals,
   nextId |-> S.nextAntId, missing |-> {}]

DEFAULT_SAND_CARRY == 5
DEFAULT_DIG_PRIORITY == 7

\* one ant of deserialize: AF.ant.create, then the saved values over it
restoreAnt(a) ==
  [id |-> a.id, isQueen |-> a.isQueen,
   x |-> a.x * (PScale \div FIXED1), y |-> a.y * (PScale \div FIXED1),
   state |-> a.state,
   prevState |-> IF a.prevState # 0 THEN a.prevState ELSE a.state,
   energy |-> a.energy * (EScale \div FIXED1),
   carryingSand |-> a.carryingSand, carryingFood |-> a.carryingFood, carrying |-> a.carrying,
   maxSandCarry |-> IF a.maxSandCarry # 0 THEN a.maxSandCarry ELSE DEFAULT_SAND_CARRY,
   stuck |-> a.stuck, digCD |-> a.digCD,
   stateTimer |-> a.stateTimer, timeSinceRest |-> a.timeSinceRest,
   restDuration |-> 0, pauseTimer |-> 0,
   maturity |-> IF a.maturity # 0 THEN a.maturity * (MScale \div FIXED3)
                ELSE IF a.isQueen THEN MScale ELSE MScale \div 2]

\* a restore that reads a missing numeric field as 0
OrDefault_Zero(d, f, dflt) == IF f \notin d.missing THEN d[f] ELSE 0

\* data.f || dflt for a numeric field: the default replaces a missing
\* field and a zero
OrDefault(d, f, dflt) == IF f \notin d.missing /\ d[f] # 0 THEN d[f] ELSE dflt

\* AF.colony.deserialize: ok is FALSE when it throws; undef lists the colony
\* fields it would leave undefined; counter and broodCounter are the two
\* module-level id counters at the time of the call
deserialize(d, counter, broodCounter) ==
  LET g == _base64ToUint8(d.grid)
      has(f) == f \notin d.missing
      num(f, dflt) == OrDefault(d, f, dflt)
      list(f) == IF has(f) THEN d[f] ELSE <<>>
      src == list("ants")
      first == num("nextId", counter)
  IN [ok |-> g.ok, undef |-> {},
      S |-> [grid |-> g.arr,
             phTrail |-> _sparseDecode(has("phTrail"), d.phTrail, NCELLS),
             phFood |-> _sparseDecode(has("phFood"), d.phFood, NCELLS),
             phDig |-> _sparseDecode(has("phDig"), d.phDig, NCELLS),
             ants |-> [k \in 1..Len(src) |-> restoreAnt(src[k])],
             foods |-> list("foods"), chambers |-> list("chambers"),
             brood |-> list("brood"), foodStores |-> list("foodStores"),
             frame |-> num("frame", 0), totalDug |-> num("totalDug", 0),
             simDay |-> num("simDay", 1),
             hasQueen |-> has("hasQueen") /\ d.hasQueen,
             entranceX |-> IF has("entranceX") THEN d.entranceX ELSE -1,
             directive |-> list("directive"),
             digPriority |-> num("digPriority", DEFAULT_DIG_PRIORITY),
             tuning |-> IF has("tuning") /\ d.tuning # <<>> THEN d.tuning
                        ELSE <<DefaultTuning>>,
             colonyGoals |-> list("colonyGoals"),
             nextAntId |-> first + Len(src), nextBroodId |-> broodCounter,
             digLog |-> <<>>, ranLog |-> {}]]

\* the random draws of AF.colony.create for one worker: offset from the
\* entrance, height above the surface, energy and carry capacity
SpawnDraws ==
  << [dx |-> -4 * PScale, dy |-> 0, e |-> 900 * EScale, msc |-> 5],
     [dx |-> 36, dy |-> (3 * PScale) \div 2, e |-> 1000 * EScale + 37, msc |-> 8],
     [dx |-> 4 * PScale - 14, dy |-> 3 * PScale - 1, e |-> 1100 * EScale - 1, msc |-> 6] >>

ZeroField == [i \in 0..(NCELLS - 1) |-> 0]

\* a creation that spawns the workers and forgets the queen
create_NoQueen(terr, eX, seed, counter, broodCounter) ==
  LET entrancePx == CellCentre(eX)
      worker(i) ==
        LET d == SpawnDraws[((seed + i) % Len(SpawnDraws)) + 1]
        IN antCreate(counter + i - 1, entrancePx + d.dx,
                     (SURFACE_PX - CELL * 2) * PScale + d.dy, FALSE, d.e, d.msc)
  IN [grid |-> terr, phTrail |-> ZeroField, phFood |-> ZeroField, phDig |-> ZeroField,
      ants |-> [k \in 1..INITIAL_WORKERS |-> worker(k)],
      foods |-> <<>>, chambers |-> <<>>, brood |-> <<>>, foodStores |-> <<>>,
      frame |-> 0, totalDug |-> 0, simDay |-> 1, hasQueen |-> TRUE,
      entranceX |-> eX, directive |-> <<>>, digPriority |-> DEFAULT_DIG_PRIORITY,
      tuning |-> <<DefaultTuning>>, colonyGoals |-> <<>>,
      nextAntId |-> counter + INITIAL_WORKERS + 1, nextBroodId |-> broodCounter,
      digLog |-> <<>>, ranLog |-> {}]

\* AF.colony.create
create(terr, eX, seed, counter, broodCounter) ==
  LET entrancePx == CellCentre(eX)
      worker(i) ==
        LET d == SpawnDraws[((seed + i) % Len(SpawnDraws)) + 1]
        IN antCreate(counter + i - 1, entrancePx + d.dx,
                     (SURFACE_PX - CELL * 2) * PScale + d.dy, FALSE, d.e, d.msc)
      queen == antCreate(counter + INITIAL_WORKERS, entrancePx,
                         (SURFACE_PX - CELL) * PScale, TRUE, 0, DEFAULT_SAND_CARRY)
  IN [grid |-> terr, phTrail |-> ZeroField, phFood |-> ZeroField, phDig |-> ZeroField,
      ants |-> [k \in 1..(INITIAL_WORKERS + 1) |->
                  IF k <= INITIAL_WORKERS THEN worker(k) ELSE queen],
      foods |-> <<>>, chambers |-> <<>>, brood |-> <<>>, foodStores |-> <<>>,
      frame |-> 0, totalDug |-> 0, simDay |-> 1, hasQueen |-> TRUE,
      entranceX |-> eX, directive |-> <<>>, digPriority |-> DEFAULT_DIG_PRIORITY,
      tuning |-> <<DefaultTuning>>, colonyGoals |-> <<>>,
      nextAntId |-> counter + INITIAL_WORKERS + 1, nextBroodId |-> broodCounter,
      digLog |-> <<>>, ranLog |-> {}]

(***************************************************************************)
(* The page: load a checkpoint or start fresh, tick, save, reload          *)
(***************************************************************************)
MaxTicks == 2
MaxLoads == 2

\* the colony held by the page, as one record
Colony ==
  [grid |-> grid, totalDug |-> totalDug, entranceX |-> entranceX,
   frame |-> frame, simDay |-> simDay, hasQueen |-> hasQueen, ants |-> ants,
   phTrail |-> phTrail, phFood |-> phFood, phDig |-> phDig,
   brood |-> brood, foods |-> foods, foodStores |-> foodStores,
   chambers |-> chambers, tuning |-> tuning, colonyGoals |-> colonyGoals,
   directive |-> directive, digPriority |-> digPriority,
   nextAntId |-> nextAntId, nextBroodId |-> nextBroodId,
   digLog |-> digLog, ranLog |-> ranLog]

Install(S) ==
  /\ grid' = S.grid /\ totalDug' = S.totalDug /\ entranceX' = S.entranceX
  /\ frame' = S.frame /\ simDay' = S.simDay /\ hasQueen' = S.hasQueen
  /\ ants' = S.ants
  /\ phTrail' = S.phTrail /\ phFood' = S.phFood /\ phDig' = S.phDig
  /\ brood' = S.brood /\ foods' = S.foods /\ foodStores' = S.foodStores
  /\ chambers' = S.chambers /\ tuning' = S.tuning /\ colonyGoals' = S.colonyGoals
  /\ directive' = S.directive /\ digPriority' = S.digPriority
  /\ nextAntId' = S.nextAntId /\ nextBroodId' = S.nextBroodId
  /\ digLog' = S.digLog /\ ranLog' = S.ranLog

\* whole-tick profiles of the random draws
DrawA ==
  [pause |-> 0, restRoll |-> 1, restDur |-> B_REST_DUR_MIN, patience |-> 1,
   nudge |-> FALSE, forage |-> FALSE, join |-> FALSE, task |-> "dig",
   side |-> -1, k |-> 0, drop |-> <<0, 0>>, cdExtra |-> 0, digOff |-> <<0, 2>>,
   step |-> <<36, 160>>, egg |-> <<0, 0>>, babyE |-> 700 * EScale, msc |-> 5]
DrawB ==
  [pause |-> 0, restRoll |-> 0, restDur |-> B_REST_DUR_MAX - 1, patience |-> 0,
   nudge |-> TRUE, forage |-> TRUE, join |-> TRUE, task |-> "explore",
   side |-> 1, k |-> 15, drop |-> <<1, -1>>, cdExtra |-> 3, digOff |-> <<1, 1>>,
   step |-> <<-124, 52>>, egg |-> <<399, -299>>, babyE |-> 900 * EScale - 1, msc |-> 8]
DrawC ==
  [DrawA EXCEPT !.pause = 3, !.step = <<0, 0>>, !.side = 1, !.k = 1,
                !.digOff = <<-1, 1>>]
RandomDraws == {DrawA, DrawB, DrawC}

\* whole-colony profiles of the random draws of AF.colony.create: the noise
\* field, the bedrock patch, the entrance column and the workers' spawn draws
CreateDraws ==
  { [noise |-> "low", bedrock |-> <<2, SURFACE + 2>>,
     entranceX |-> (COLS * 45 + 50) \div 100, seed |-> 0],
    [noise |-> "stripes", bedrock |-> <<COLS - 3, ROWS - 2>>,
     entranceX |-> (COLS * 55 + 49) \div 100, seed |-> 1] }

\* the colony fields a tick dereferences without a guard
TickNeeds ==
  {"ants", "foods"}
    \cup (IF (frame + 1) % DECAY_EVERY = 0 THEN {"phTrail", "phFood", "phDig"} ELSE {})
    \cup (IF \E i \in DOMAIN ants : ants[i].isQueen THEN {"chambers"} ELSE {})

\* main.js begin(): restore the saved checkpoint, or create a fresh colony
\* when there is none or when deserialize throws
Begin ==
  /\ pc = "boot"
  /\ LET r == IF kv # <<>> THEN deserialize(kv[1], nextAntId, nextBroodId)
              ELSE [ok |-> FALSE, undef |-> {}, S |-> <<>>]
         restored == kv # <<>> /\ r.ok
     IN /\ IF restored THEN Install(r.S)
           ELSE \E c \in CreateDraws :
                  Install(create(terrainInit(c.noise, c.bedrock), c.entranceX, c.seed,
                                 nextAntId, nextBroodId))
        /\ loadFailed' = (kv # <<>> /\ ~r.ok)
        /\ undef' = IF restored THEN r.undef ELSE {}
  /\ pc' = "running"
  /\ loads' = loads + 1
  /\ UNCHANGED <<ret, opCount, lastCall, kv, serverVars, crashed, ticks, savedLately, syncedLately>>

\* one frame of the game loop: AF.colony.tick
Tick ==
  /\ pc = "running"
  /\ ticks < MaxTicks
  /\ ticks' = ticks + 1
  /\ IF undef \cap TickNeeds # {}
     THEN /\ crashed' = TRUE
          /\ pc' = "crashed"
          /\ UNCHANGED <<terrainVars, colonyVars, nextAntId, nextBroodId, digLog, ranLog>>
     ELSE /\ \E rnd \in RandomDraws : \E S \in tick(Colony, rnd) : Install(S)
          /\ UNCHANGED <<pc, crashed>>
  /\ UNCHANGED <<ret, opCount, lastCall, kv, serverVars, loadFailed, undef, loads, savedLately, syncedLately>>

\* network.js saveCheckpoint, called by every frame of the game loop: the
\* leader stores the checkpoint unless it did so less than SAVE_INTERVAL
\* (30 s) ago; the frames modelled after one page load span far less
SaveCheckpoint ==
  /\ pc = "running"
  /\ ticks < MaxTicks
  /\ ~savedLately
  /\ savedLately' = TRUE
  /\ kv' = <<serialize(Colony)>>
  /\ UNCHANGED serverVars
  /\ UNCHANGED <<terrainVars, colonyVars, ret, opCount, lastCall, nextAntId, nextBroodId, pc,
                 loadFailed, undef, crashed, digLog, ranLog, ticks, loads, syncedLately>>

\* the page is reloaded: the scripts start over, the stored checkpoint stays
Reload ==
  /\ pc \in {"running", "crashed"}
  /\ ticks < MaxTicks
  /\ loads < MaxLoads
  /\ pc' = "boot"
  /\ grid' = <<>> /\ totalDug' = 0 /\ entranceX' = -1
  /\ frame' = 0 /\ simDay' = 1 /\ hasQueen' = FALSE /\ ants' = <<>>
  /\ phTrail' = <<>> /\ phFood' = <<>> /\ phDig' = <<>>
  /\ brood' = <<>> /\ foods' = <<>> /\ foodStores' = <<>> /\ chambers' = <<>>
  /\ tuning' = <<>> /\ colonyGoals' = <<>> /\ directive' = <<>>
  /\ digPriority' = DEFAULT_DIG_PRIORITY
  /\ nextAntId' = 1 /\ nextBroodId' = 1
  /\ loadFailed' = FALSE /\ undef' = {} /\ crashed' = FALSE
  /\ digLog' = <<>> /\ ranLog' = {} /\ savedLately' = FALSE /\ syncedLately' = FALSE
  /\ UNCHANGED <<ret, opCount, lastCall, kv, serverVars, ticks, loads>>

\* network.isLeader: false until claimLeader has answered, which happens in
\* the first saveCheckpoint call; a leader's first call also stores the
\* checkpoint (lastSave starts at 0), so within the SAVE_INTERVAL modelled the
\* client is the leader exactly when it has saved
isLeader == savedLately

\* the handler of syncFromServer in gameLoop, for the checkpoint data it got:
\* deserialize it (which reseeds the id counter), and take it as the page's
\* colony only when its frame is ahead; an exception of deserialize is
\* swallowed
Synced(r) ==
  IF r.ok /\ r.S.frame > frame
  THEN Install(r.S)
  ELSE /\ nextAntId' = IF r.ok THEN r.S.nextAntId ELSE nextAntId
       /\ UNCHANGED <<terrainVars, colonyVars, nextBroodId, digLog, ranLog>>

\* network.js syncFromServer and its handler in gameLoop: a client that is
\* not (or not yet) the leader fetches the stored checkpoint every
\* SYNC_INTERVAL (15 s).  With no stored checkpoint the call changes nothing
\* the page reads again, so it is left out.
SyncFromServer ==
  /\ pc = "running"
  /\ ticks < MaxTicks
  /\ ~isLeader
  /\ ~syncedLately
  /\ kv # <<>>
  /\ syncedLately' = TRUE
  /\ Synced(deserialize(kv[1], nextAntId, nextBroodId))
  /\ UNCHANGED <<ret, opCount, lastCall, pc, kv, serverVars, loadFailed, undef, crashed, ticks, loads,
                 savedLately>>

\* main.js:319  adminAction('addAnts') drops five ants
DROP_COUNT == 5
MaxAnts == 9

\* the random draws of AF.colony.dropAnts: where each ant lands
DropDraws == {0, (W * PScale * 4) \div 10 - 1}

\* AF.colony.dropAnts(state, n): n new idle workers above the surface
RECURSIVE dropAnts(_, _, _)
dropAnts(S, n, dx) ==
  IF n = 0 THEN S
  ELSE dropAnts([S EXCEPT !.ants = Append(@, antCreate(S.nextAntId,
                                                       (W * PScale * 3) \div 10 + dx,
                                                       (SURFACE_PX - CELL * 2) * PScale,
                                                       FALSE,
                                                       SpawnDraws[(n % Len(SpawnDraws)) + 1].e,
                                                       SpawnDraws[(n % Len(SpawnDraws)) + 1].msc)),
                          !.nextAntId = @ + 1],
                n - 1, dx)

\* main.js adminAction('addAnts')
DropAnts ==
  /\ pc = "running"
  /\ ticks < MaxTicks
  /\ Len(ants) + DROP_COUNT <= MaxAnts
  /\ \E dx \in DropDraws : Install([dropAnts(Colony, DROP_COUNT, dx) EXCEPT
                                       !.digLog = digLog, !.ranLog = ranLog])
  /\ UNCHANGED <<ret, opCount, lastCall, pc, kv, serverVars, loadFailed, undef, crashed, ticks, loads,
                 savedLately, syncedLately>>

(***************************************************************************)
(* The stored checkpoints the page may find when it starts                 *)
(***************************************************************************)
EntranceCol == (COLS * 45 + 50) \div 100

\* a young nest: a two-cell shaft under the entrance, fresh trail and dig
\* scent in it, frame 6
ShaftGrid ==
  SetCell(SetCell(terrainInit("low", <<2, SURFACE + 2>>),
                  Idx(EntranceCol, SURFACE), 0),
          Idx(EntranceCol, SURFACE + 1), 0)

YoungColony ==
  [create(ShaftGrid, EntranceCol, 0, 1, 1) EXCEPT
     !.ants = <<>>, !.frame = 6, !.totalDug = 2,
     !.phTrail = phSet(ZeroField, EntranceCol, SURFACE, PhOf(4, 100)),
     !.phDig = phSet(ZeroField, EntranceCol, SURFACE + 1, PhOf(25, 100))]

YoungCheckpoint == [serialize(YoungColony) EXCEPT !.nextId = INITIAL_WORKERS + 2]

\* saved positions, in tenths of a pixel
EntranceX10 == EntranceCol * CELL * FIXED1 + (CELL * FIXED1) \div 2
SurfaceY10 == SURFACE_PX * FIXED1 - (CELL * FIXED1) \div 2
ShaftY10 == (SURFACE + 1) * CELL * FIXED1 + (CELL * FIXED1) \div 2
DeepY10 == (SURFACE + 2) * CELL * FIXED1 + (CELL * FIXED1) \div 2

SavedQueen ==
  [id |-> INITIAL_WORKERS + 1, x |-> EntranceX10, y |-> SurfaceY10,
   state |-> ST_IDLE, prevState |-> ST_IDLE,
   energy |-> QUEEN_ENERGY * FIXED1, isQueen |-> TRUE,
   carryingSand |-> 0, carryingFood |-> 0, carrying |-> FALSE, maxSandCarry |-> DEFAULT_SAND_CARRY,
   stuck |-> 0, digCD |-> 0, stateTimer |-> 0, timeSinceRest |-> 0, maturity |-> FIXED3]

SavedWorker(st, x, y, e) ==
  [id |-> 1, x |-> x, y |-> y, state |-> st, prevState |-> ST_IDLE,
   energy |-> e, isQueen |-> FALSE,
   carryingSand |-> 0, carryingFood |-> 0, carrying |-> FALSE, maxSandCarry |-> DEFAULT_SAND_CARRY,
   stuck |-> 0, digCD |-> 0, stateTimer |-> 0, timeSinceRest |-> 0, maturity |-> FIXED3]

Fit == 900 * FIXED1

SavedWorkers ==
  { [SavedWorker(ST_IDLE, EntranceX10 - 47, SurfaceY10, Fit) EXCEPT !.stateTimer = 45],
    SavedWorker(ST_ENTER, EntranceX10, SurfaceY10, Fit),
    SavedWorker(ST_ENTER, EntranceX10, DeepY10, Fit),
    [SavedWorker(ST_DIG, EntranceX10, ShaftY10, Fit) EXCEPT !.carryingSand = 4],
    [SavedWorker(ST_HAUL, EntranceX10 + 30, SurfaceY10, Fit) EXCEPT
       !.carryingSand = 3, !.prevState = ST_DIG],
    [SavedWorker(ST_HAUL, EntranceX10, DeepY10, Fit) EXCEPT
       !.carryingSand = 2, !.stateTimer = HAUL_TIMEOUT, !.prevState = ST_DIG],
    SavedWorker(ST_DIG, EntranceX10, ShaftY10, 1),
    SavedWorker(ST_IDLE, EntranceX10 + 30, SurfaceY10, 0),
    SavedWorker(ST_EXPLORE, EntranceX10, ShaftY10, 300 * FIXED1),
    [SavedWorker(ST_REST, EntranceX10, ShaftY10, 500 * FIXED1) EXCEPT !.prevState = ST_DIG],
    [SavedWorker(ST_HUNGRY, EntranceX10 + 30, SurfaceY10, 200 * FIXED1) EXCEPT
       !.stateTimer = HUNGRY_TIMEOUT],
    [SavedWorker(ST_IDLE, EntranceX10 + 30, SurfaceY10, 500 * FIXED1) EXCEPT
       !.timeSinceRest = B_REST_MAX + 50],
    [SavedWorker(ST_EXPLORE, EntranceX10, ShaftY10, B_HUNGER_THRESHOLD * FIXED1) EXCEPT
       !.timeSinceRest = B_REST_MIN + 100] }

Digger == SavedWorker(ST_ENTER, EntranceX10, SurfaceY10, Fit)

WithAnts(c, as) == [c EXCEPT !.ants = as]

OptionalFields ==
  {"phTrail", "phFood", "phDig", "ants", "foods", "chambers", "brood",
   "foodStores", "frame", "totalDug", "simDay", "hasQueen", "entranceX",
   "digPriority", "directive", "tuning", "colonyGoals", "nextId"}

DiggerCheckpoint == WithAnts(YoungCheckpoint, <<Digger, SavedQueen>>)

\* checkpoints whose terrain blob is damaged: cut short (still valid
\* base64), too long, holding a character outside the alphabet, or of a
\* length no base64 string has
DamagedGrids ==
  { SubSeq(YoungCheckpoint.grid, 1, 4),
    _uint8ToBase64([i \in 0..(NCELLS + 2) |-> 1]),
    [YoungCheckpoint.grid EXCEPT ![2] = B64Bad],
    SubSeq(YoungCheckpoint.grid, 1, 5) }

\* a pupa one frame from emerging, and a queen that lays every 8 frames
PupaCheckpoint ==
  [DiggerCheckpoint EXCEPT
     !.tuning = <<[DefaultTuning EXCEPT !.queenSpawnRate = DECAY_EVERY]>>,
     !.brood = <<[id |-> 1, stage |-> BROOD_PUPA,
                  x |-> EntranceX10 * (PScale \div FIXED1),
                  y |-> ShaftY10 * (PScale \div FIXED1),
                  age |-> BROOD_TIME_PUPA - 1, fed |-> LARVA_FEEDINGS_NEEDED]>>]

\* a larva of the given age and feedings, lying in the shaft
SavedLarva(id, age, fed) ==
  [id |-> id, stage |-> BROOD_LARVA,
   x |-> EntranceX10 * (PScale \div FIXED1), y |-> ShaftY10 * (PScale \div FIXED1),
   age |-> age, fed |-> fed]

\* the brood ids of the four larvae
LarvaId == [fed |-> 11, lastMeal |-> 12, starved |-> 13, slow |-> 14]

\* a nurse holding one meal next to four larvae: one fed and two frames from
\* the end of its larval time, one a meal short and one frame from it, one
\* unfed and one frame from double the larval time, one unfed in between
LarvaCheckpoint ==
  [WithAnts(YoungCheckpoint,
            <<[SavedWorker(ST_NURSE, EntranceX10, ShaftY10, Fit) EXCEPT !.carryingFood = 1],
              SavedQueen>>)
     EXCEPT !.brood = << SavedLarva(LarvaId.fed, BROOD_TIME_LARVA - 2, LARVA_FEEDINGS_NEEDED),
                         SavedLarva(LarvaId.lastMeal, BROOD_TIME_LARVA - 1,
                                    LARVA_FEEDINGS_NEEDED - 1),
                         [SavedLarva(LarvaId.starved, BROOD_TIME_LARVA * 2 - 1, 0)
                            EXCEPT !.x = @ + CELL * PScale],
                         [SavedLarva(LarvaId.slow, BROOD_TIME_LARVA + 1, 0)
                            EXCEPT !.x = @ - CELL * PScale] >>]

\* the young nest on a terrain whose bedrock patch lies under the shaft,
\* with a worker digging at the shaft's bottom
BedrockCheckpoint ==
  WithAnts([serialize([YoungColony EXCEPT
                         !.grid = SetCell(SetCell(terrainInit("low", <<EntranceCol, SURFACE + 3>>),
                                                  Idx(EntranceCol, SURFACE), 0),
                                          Idx(EntranceCol, SURFACE + 1), 0)])
              EXCEPT !.nextId = INITIAL_WORKERS + 2],
           <<SavedWorker(ST_DIG, EntranceX10, ShaftY10, Fit), SavedQueen>>)

\* a granary: a FOOD chamber under the shaft, as a detection pass records it
Granary ==
  [x |-> EntranceX10 * (PScale \div FIXED1), y |-> DeepY10 * (PScale \div FIXED1),
   size |-> 40, depth |-> 2, type |-> CHAMBER_FOOD]

\* a forager that has just picked food up at the surface, and one carrying it
\* down the shaft, in a colony that has a granary
CarrierCheckpoints ==
  {[WithAnts(YoungCheckpoint,
             <<[SavedWorker(ST_CARRY, x, y, Fit) EXCEPT !.carrying = TRUE], SavedQueen>>)
      EXCEPT !.chambers = <<Granary>>] :
     <<x, y>> \in {<<EntranceX10 + 30, SurfaceY10>>, <<EntranceX10, DeepY10>>}}

Checkpoints ==
  {WithAnts(YoungCheckpoint, <<w, SavedQueen>>) : w \in SavedWorkers}
    \cup {WithAnts(YoungCheckpoint,
                   <<Digger, [SavedQueen EXCEPT !.energy = 0],
                     [SavedWorker(ST_DIG, EntranceX10, ShaftY10, 1) EXCEPT !.id = 2]>>)}
    \cup {[DiggerCheckpoint EXCEPT !.grid = g] : g \in DamagedGrids}
    \cup {[DiggerCheckpoint EXCEPT !.missing = {f}] : f \in OptionalFields}
    \cup {[DiggerCheckpoint EXCEPT !.missing = OptionalFields]}
    \cup {PupaCheckpoint, LarvaCheckpoint, BedrockCheckpoint}
    \cup CarrierCheckpoints

Init ==
  /\ pc = "boot"
  /\ NoServer
  /\ kv \in {<<>>} \cup {<<c>> : c \in Checkpoints}
  /\ grid = <<>> /\ totalDug = 0 /\ entranceX = -1
  /\ frame = 0 /\ simDay = 1 /\ hasQueen = FALSE /\ ants = <<>>
  /\ phTrail = <<>> /\ phFood = <<>> /\ phDig = <<>>
  /\ brood = <<>> /\ foods = <<>> /\ foodStores = <<>> /\ chambers = <<>>
  /\ tuning = <<>> /\ colonyGoals = <<>> /\ directive = <<>>
  /\ digPriority = DEFAULT_DIG_PRIORITY
  /\ nextAntId = 1 /\ nextBroodId = 1
  /\ loadFailed = FALSE /\ undef = {} /\ crashed = FALSE
  /\ digLog = <<>> /\ ranLog = {} /\ ticks = 0 /\ loads = 0 /\ savedLately = FALSE
  /\ syncedLately = FALSE
  /\ ret = -1 /\ opCount = 0 /\ lastCall = "none"

Next ==
  \/ Begin
  \/ Tick
  \/ SaveCheckpoint
  \/ Reload

Spec == Init /\ [][Next]_vars

(***************************************************************************)
(* The page as one client of the live shared view: besides the above it    *)
(* syncs from the server while it is not the leader, and the admin panel   *)
(* drops ants into it                                                      *)
(***************************************************************************)
SharedCheckpoints ==
  {DiggerCheckpoint, PupaCheckpoint,
   [DiggerCheckpoint EXCEPT !.missing = {"nextId"}],
   [DiggerCheckpoint EXCEPT !.grid = [YoungCheckpoint.grid EXCEPT ![2] = B64Bad]]}

\* what the leading client has stored a few frames later
LaterCheckpoint == [DiggerCheckpoint EXCEPT !.frame = @ + MaxTicks + 1]

\* network.js saveCheckpoint run by another client, the leader: the stored
\* checkpoint is replaced by a later one
LeaderSaves ==
  /\ pc = "running"
  /\ ~isLeader
  /\ kv # <<>> /\ kv[1] # LaterCheckpoint
  /\ kv' = <<LaterCheckpoint>>
  /\ UNCHANGED serverVars
  /\ UNCHANGED <<terrainVars, colonyVars, ret, opCount, lastCall, nextAntId, nextBroodId, pc,
                 loadFailed, undef, crashed, digLog, ranLog, ticks, loads, savedLately,
                 syncedLately>>

InitShared ==
  /\ pc = "boot"
  /\ NoServer
  /\ kv \in {<<>>} \cup {<<c>> : c \in SharedCheckpoints}
  /\ grid = <<>> /\ totalDug = 0 /\ entranceX = -1
  /\ frame = 0 /\ simDay = 1 /\ hasQueen = FALSE /\ ants = <<>>
  /\ phTrail = <<>> /\ phFood = <<>> /\ phDig = <<>>
  /\ brood = <<>> /\ foods = <<>> /\ foodStores = <<>> /\ chambers = <<>>
  /\ tuning = <<>> /\ colonyGoals = <<>> /\ directive = <<>>
  /\ digPriority = DEFAULT_DIG_PRIORITY
  /\ nextAntId = 1 /\ nextBroodId = 1
  /\ loadFailed = FALSE /\ undef = {} /\ crashed = FALSE
  /\ digLog = <<>> /\ ranLog = {} /\ ticks = 0 /\ loads = 0 /\ savedLately = FALSE
  /\ syncedLately = FALSE
  /\ ret = -1 /\ opCount = 0 /\ lastCall = "none"

NextShared ==
  \/ Begin
  \/ Tick
  \/ SaveCheckpoint
  \/ SyncFromServer
  \/ LeaderSaves
  \/ DropAnts
  \/ Reload

SpecShared == InitShared /\ [][NextShared]_vars

(***************************************************************************)
(* Pheromone API specification: the three fields of a colony driven by     *)
(* arbitrary deposits, decay passes and gradient queries ("api"), and      *)
(* fields left to decay without any deposit ("decaying").                  *)
(***************************************************************************)
MaxPhOps == 4
MaxDecays == 1601

PheromoneChannels == {"phTrail", "phFood", "phDig"}
PhAmounts == {0, PhOf(25, 100), PhOne}
SetPoints == {<<(COLS * 45 + 50) \div 100, SURFACE>>, <<-1, SURFACE>>, <<COLS - 3, ROWS>>}
QueryPoints ==
  {<<0, SURFACE>>, <<(COLS * 45 + 50) \div 100, SURFACE>>, <<COLS - 1, ROWS - 1>>,
   <<-3, ROWS + 2>>}
\* the levels a cell is left at before the decay passes: nothing, just above
\* the snap-to-zero epsilon, a trail deposit, and the cap
StartLevels == {0, PhOf(3, 1000) + 1, PhOf(25, 100), PhCap}

Field(m) == IF m = "phTrail" THEN phTrail ELSE IF m = "phFood" THEN phFood ELSE phDig

NoColony ==
  /\ grid = terrainInit("low", <<2, SURFACE + 2>>) /\ totalDug = 0
  /\ entranceX = (COLS * 45 + 50) \div 100
  /\ frame = 0 /\ simDay = 1 /\ hasQueen = FALSE /\ ants = <<>>
  /\ brood = <<>> /\ foods = <<>> /\ foodStores = <<>> /\ chambers = <<>>
  /\ tuning = <<>> /\ colonyGoals = <<>> /\ directive = <<>> /\ digPriority = 7
  /\ nextAntId = 1 /\ nextBroodId = 1 /\ kv = <<>> /\ NoServer
  /\ loadFailed = FALSE /\ undef = {} /\ crashed = FALSE
  /\ digLog = <<>> /\ ranLog = {} /\ ticks = 0 /\ loads = 0 /\ savedLately = FALSE
  /\ syncedLately = FALSE
  /\ ret = -1 /\ opCount = 0 /\ lastCall = "none"

\* terrain.init: three zeroed fields
InitPheromones ==
  /\ pc = "api"
  /\ phTrail = ZeroField /\ phFood = ZeroField /\ phDig = ZeroField
  /\ NoColony

\* fields with one cell at a chosen level each
InitDecay ==
  /\ pc = "decaying"
  /\ \E t, d \in StartLevels :
       /\ phTrail = [ZeroField EXCEPT ![Idx(0, SURFACE)] = t]
       /\ phFood = [ZeroField EXCEPT ![Idx(1, SURFACE)] = t]
       /\ phDig = [ZeroField EXCEPT ![Idx(COLS - 1, ROWS - 1)] = d]
  /\ NoColony

Untouched ==
  UNCHANGED <<terrainVars, frame, simDay, hasQueen, ants, brood, foods, foodStores,
              chambers, tuning, colonyGoals, directive, digPriority, pageVars>>

CallSet(m, x, y, value) ==
  /\ pc = "api" /\ opCount < MaxPhOps
  /\ phTrail' = IF m = "phTrail" THEN phSet(phTrail, x, y, value) ELSE phTrail
  /\ phFood' = IF m = "phFood" THEN phSet(phFood, x, y, value) ELSE phFood
  /\ phDig' = IF m = "phDig" THEN phSet(phDig, x, y, value) ELSE phDig
  /\ ret' = [of |-> m, at |-> <<x, y>>, value |-> value]
  /\ opCount' = opCount + 1
  /\ lastCall' = "set"
  /\ Untouched

CallDecay ==
  /\ pc \in {"api", "decaying"}
  /\ opCount < (IF pc = "api" THEN MaxPhOps ELSE MaxDecays)
  /\ LET D == decay(Colony)
     IN phTrail' = D.phTrail /\ phFood' = D.phFood /\ phDig' = D.phDig
  /\ ret' = -1
  /\ opCount' = opCount + 1
  /\ lastCall' = "decay"
  /\ Untouched

CallGradient(m, gx, gy) ==
  /\ pc = "api" /\ opCount < MaxPhOps
  /\ ret' = [of |-> m, at |-> <<gx, gy>>, found |-> gradient(Field(m), gx, gy, GradOffsets5)]
  /\ opCount' = opCount + 1
  /\ lastCall' = "gradient"
  /\ UNCHANGED <<phTrail, phFood, phDig>>
  /\ Untouched

SetAny == \E m \in PheromoneChannels, p \in SetPoints, v \in PhAmounts : CallSet(m, p[1], p[2], v)
GradientAny == \E m \in PheromoneChannels, p \in QueryPoints : CallGradient(m, p[1], p[2])

NextPheromones ==
  \/ SetAny
  \/ CallDecay
  \/ GradientAny

SpecPheromones == InitPheromones /\ [][NextPheromones]_vars

SpecDecay == InitDecay /\ [][CallDecay]_vars

\* deposits on three of the cells that a query at the entrance samples (the
\* 1st, 2nd and 7th direction), decay passes and queries at the entrance
SampledPoints ==
  {<<(COLS * 45 + 50) \div 100 + GradOffsets5[k][1], SURFACE + GradOffsets5[k][2]>> :
     k \in {1, 2, 7}}
SampledAmounts == {PhOf(25, 100), PhOf(30, 100)}

SetSampled == \E p \in SampledPoints, v \in SampledAmounts : CallSet("phFood", p[1], p[2], v)
GradientAtEntrance == CallGradient("phFood", (COLS * 45 + 50) \div 100, SURFACE)

NextGradient ==
  \/ SetSampled
  \/ CallDecay
  \/ GradientAtEntrance

SpecGradient == InitPheromones /\ [][NextGradient]_vars

(***************************************************************************)
(* One long run of a fresh colony: nothing but ticks, for more than a      *)
(* simulated day.  The draws of the ticks follow one fixed rotation.       *)
(***************************************************************************)
\* two ticks more than the 18000 frames of a day
MaxDayTicks == 18002

DayDraws == <<DrawA, DrawB, DrawC>>

InitDays ==
  /\ pc = "running"
  /\ NoServer
  /\ kv = <<>>
  /\ \E c \in CreateDraws :
       LET S == create(terrainInit(c.noise, c.bedrock), c.entranceX, c.seed, 1, 1)
       IN /\ grid = S.grid /\ totalDug = S.totalDug /\ entranceX = S.entranceX
          /\ frame = S.frame /\ simDay = S.simDay /\ hasQueen = S.hasQueen
          /\ ants = S.ants
          /\ phTrail = S.phTrail /\ phFood = S.phFood /\ phDig = S.phDig
          /\ brood = S.brood /\ foods = S.foods /\ foodStores = S.foodStores
          /\ chambers = S.chambers /\ tuning = S.tuning /\ colonyGoals = S.colonyGoals
          /\ directive = S.directive /\ digPriority = S.digPriority
          /\ nextAntId = S.nextAntId /\ nextBroodId = S.nextBroodId
  /\ loadFailed = FALSE /\ undef = {} /\ crashed = FALSE
  /\ digLog = <<>> /\ ranLog = {} /\ ticks = 0 /\ loads = 1 /\ savedLately = FALSE
  /\ syncedLately = FALSE
  /\ ret = -1 /\ opCount = 0 /\ lastCall = "none"

\* one frame of the game loop: AF.colony.tick
LongTick ==
  /\ pc = "running"
  /\ frame < MaxDayTicks
  /\ \E S \in tick(Colony, DayDraws[(frame % Len(DayDraws)) + 1]) : Install(S)
  /\ UNCHANGED <<ret, opCount, lastCall, pc, kv, serverVars, loadFailed, undef, crashed, ticks, loads,
                 savedLately, syncedLately>>

SpecDays == InitDays /\ [][LongTick]_vars

(***************************************************************************)
(* The lone-worker specification: the ant loop of the tick runs on a colony *)
(* of one worker at the hunger threshold, with or without food in reach.   *)
(***************************************************************************)
NestEntrance == (COLS * 45 + 50) \div 100

\* the worker of the lone-worker specification: exploring on the surface with its
\* energy at the hunger threshold, or the same worker saved many rests later,
\* hungry at the right wall with its energy at the maximum
LoneWorkers ==
  {SavedWorker(ST_EXPLORE, EntranceX10 + 30, SurfaceY10, B_HUNGER_THRESHOLD * FIXED1),
   [SavedWorker(ST_HUNGRY, (COLS - 2) * CELL * FIXED1, SurfaceY10 + 2,
                DefaultTuning.antMaxEnergy * 11 * FIXED1) EXCEPT
      !.prevState = ST_REST, !.stuck = (3 * SScale) \div 10]}

\* the colonies of the lone-worker specification: no food at all, or one item of
\* surface food beside the worker
LoneColonies ==
  LET S == create(terrainInit("low", <<COLS - 3, ROWS - 2>>), NestEntrance, 0, 1, 1)
  IN UNION {{[S EXCEPT !.ants = <<restoreAnt(w)>>, !.hasQueen = FALSE, !.foods = <<>>],
             [S EXCEPT !.ants = <<restoreAnt(w)>>, !.hasQueen = FALSE,
                       !.foods = <<[x |-> restoreAnt(w).x, y |-> restoreAnt(w).y,
                                    amount |-> 1]>>]} :
              w \in LoneWorkers}

LoneDraws == {DrawA}

InitLone ==
  /\ pc = "lone"
  /\ NoServer
  /\ kv = <<>>
  /\ \E S \in LoneColonies :
       /\ grid = S.grid /\ totalDug = S.totalDug /\ entranceX = S.entranceX
       /\ frame = S.frame /\ simDay = S.simDay /\ hasQueen = S.hasQueen
       /\ ants = S.ants
       /\ phTrail = S.phTrail /\ phFood = S.phFood /\ phDig = S.phDig
       /\ brood = S.brood /\ foods = S.foods /\ foodStores = S.foodStores
       /\ chambers = S.chambers /\ tuning = S.tuning /\ colonyGoals = S.colonyGoals
       /\ directive = S.directive /\ digPriority = S.digPriority
       /\ nextAntId = S.nextAntId /\ nextBroodId = S.nextBroodId
  /\ loadFailed = FALSE /\ undef = {} /\ crashed = FALSE
  /\ digLog = <<>> /\ ranLog = {} /\ ticks = 0 /\ loads = 1 /\ savedLately = FALSE
  /\ syncedLately = FALSE
  /\ ret = -1 /\ opCount = 0 /\ lastCall = "none"

\* the ant loop of AF.colony.tick: AF.behavior.update for every ant, the dead
\* spliced out
AntLoop ==
  /\ pc = "lone"
  /\ \E rnd \in LoneDraws :
       \E S \in {UpdateAnts([Colony EXCEPT !.digLog = <<>>, !.ranLog = {}],
                            Len(ants), 1, rnd)} : Install(S)
  /\ UNCHANGED <<ret, opCount, lastCall, pc, kv, serverVars, loadFailed, undef, crashed, ticks, loads,
                 savedLately, syncedLately>>

SpecLone == InitLone /\ [][AntLoop]_vars

\* the frame loop never stops calling the tick
SpecLoneFair == SpecLone /\ WF_vars(AntLoop)

\* the workers of the foraging specification: a forager, a digger and a carrier
\* on the surface beside the entrance
ForageWorkers ==
  {SavedWorker(ST_FORAGE, EntranceX10 + 30, SurfaceY10, 2 * B_HUNGER_THRESHOLD * FIXED1),
   SavedWorker(ST_DIG, EntranceX10, SurfaceY10, 2 * B_HUNGER_THRESHOLD * FIXED1),
   [SavedWorker(ST_CARRY, EntranceX10 + 30, SurfaceY10,
                2 * B_HUNGER_THRESHOLD * FIXED1) EXCEPT !.carrying = TRUE]}

\* the colonies of the foraging specification: one worker and one item of
\* surface food at the left or at the right wall
ForageColonies ==
  LET S == create(terrainInit("low", <<COLS - 3, ROWS - 2>>), NestEntrance, 0, 1, 1)
  IN {[S EXCEPT !.ants = <<restoreAnt(w)>>, !.hasQueen = FALSE,
                !.foods = <<[x |-> fx * CELL * PScale, y |-> restoreAnt(w).y,
                             amount |-> 2]>>] :
        w \in ForageWorkers, fx \in {1, COLS - 2}}

InitForage ==
  /\ pc = "lone"
  /\ NoServer
  /\ kv = <<>>
  /\ \E S \in ForageColonies :
       /\ grid = S.grid /\ totalDug = S.totalDug /\ entranceX = S.entranceX
       /\ frame = S.frame /\ simDay = S.simDay /\ hasQueen = S.hasQueen
       /\ ants = S.ants
       /\ phTrail = S.phTrail /\ phFood = S.phFood /\ phDig = S.phDig
       /\ brood = S.brood /\ foods = S.foods /\ foodStores = S.foodStores
       /\ chambers = S.chambers /\ tuning = S.tuning /\ colonyGoals = S.colonyGoals
       /\ directive = S.directive /\ digPriority = S.digPriority
       /\ nextAntId = S.nextAntId /\ nextBroodId = S.nextBroodId
  /\ loadFailed = FALSE /\ undef = {} /\ crashed = FALSE
  /\ digLog = <<>> /\ ranLog = {} /\ ticks = 0 /\ loads = 1 /\ savedLately = FALSE
  /\ syncedLately = FALSE
  /\ ret = -1 /\ opCount = 0 /\ lastCall = "none"

SpecForage == InitForage /\ [][AntLoop]_vars

(***************************************************************************)
(* The carry-capacity specification: a lone worker that has started to dig *)
(* goes on through the ant loop while one directive with a tuning block    *)
(* arrives from the server.                                                *)
(***************************************************************************)
\* AF.colony.applyDirective for a directive without a role shift: the
\* directive is stored, the focus sets the dig priority, and the tuning block
\* overwrites the tuning fields it names, each clamped to its range
applyDirective(S, d) ==
  LET byFocus == CASE d.focus = "extend_shaft" -> 9
                   [] d.focus = "extend_gallery" -> 7
                   [] d.focus = "dig_chamber" -> 6
                   [] d.focus = "explore" -> 3
                   [] d.focus = "forage" -> 2
                   [] d.focus = "rest" -> 1
                   [] d.focus = "nurse" -> 3
                   [] OTHER -> 5
      t == d.tuning
      has(f) == f \in DOMAIN t
      tuned(old, f, lo, hi) == IF has(f) THEN Clamp(t[f], lo, hi) ELSE old
  IN [S EXCEPT
        !.directive = <<d>>,
        !.digPriority = tuned(byFocus, "digPriority", 1, 10),
        !.tuning = <<[restThreshold |-> tuned(S.tuning[1].restThreshold, "restThreshold", 0, 100),
                      antMaxEnergy |-> tuned(S.tuning[1].antMaxEnergy, "antMaxEnergy", 50, 200),
                      queenSpawnRate |-> tuned(S.tuning[1].queenSpawnRate, "queenSpawnRate",
                                               600, 5400),
                      sandCarryMax |-> tuned(S.tuning[1].sandCarryMax, "sandCarryMax", 1, 10)]>>]

RECURSIVE Passes(_, _)
\* the colony after n passes of the ant loop
Passes(S, n) ==
  IF n = 0 THEN S
  ELSE IF n = 1
  THEN UpdateAnts([S EXCEPT !.digLog = <<>>, !.ranLog = {}], Len(S.ants), 1, DrawA)
  ELSE Only({Passes(T, n - n \div 2) : T \in {Passes(S, n \div 2)}})

DigPasses == 128
MaxCarryPasses == 16

\* the lone worker that found food beside it, after the passes in which it ate,
\* walked to the entrance, went down the shaft and dug its first two grains
CarryColonies ==
  {Passes(S, DigPasses) : S \in {T \in LoneColonies : T.foods # <<>> /\ T.ants[1].state = ST_HUNGRY}}

\* the directives the server sends: a focus and a sand-carry capacity (0 and 12
\* are clamped), or a maximum energy (40 and 250 are clamped)
CarryDirectives ==
  {[focus |-> f, tuning |-> [sandCarryMax |-> m]] : f \in {"", "extend_shaft"}, m \in {0, 1, 3, 8, 12}}
    \cup {[focus |-> "", tuning |-> [antMaxEnergy |-> m]] : m \in {40, 50, 100, 200, 250}}

InitCarry ==
  /\ pc = "carry"
  /\ NoServer
  /\ kv = <<>>
  /\ \E S \in CarryColonies :
       /\ grid = S.grid /\ totalDug = S.totalDug /\ entranceX = S.entranceX
       /\ frame = S.frame /\ simDay = S.simDay /\ hasQueen = S.hasQueen
       /\ ants = S.ants
       /\ phTrail = S.phTrail /\ phFood = S.phFood /\ phDig = S.phDig
       /\ brood = S.brood /\ foods = S.foods /\ foodStores = S.foodStores
       /\ chambers = S.chambers /\ tuning = S.tuning /\ colonyGoals = S.colonyGoals
       /\ directive = S.directive /\ digPriority = S.digPriority
       /\ nextAntId = S.nextAntId /\ nextBroodId = S.nextBroodId
  /\ loadFailed = FALSE /\ undef = {} /\ crashed = FALSE
  /\ digLog = <<>> /\ ranLog = {} /\ ticks = 0 /\ loads = 1 /\ savedLately = FALSE
  /\ syncedLately = FALSE
  /\ ret = -1 /\ opCount = 0 /\ lastCall = "none"

\* the ant loop of AF.colony.tick, for a bounded number of passes
CarryLoop ==
  /\ pc = "carry"
  /\ ticks < MaxCarryPasses
  /\ \E S \in {UpdateAnts([Colony EXCEPT !.digLog = <<>>, !.ranLog = {}], Len(ants), 1, DrawA)} :
       Install(S)
  /\ ticks' = ticks + 1
  /\ UNCHANGED <<ret, opCount, lastCall, pc, kv, serverVars, loadFailed, undef, crashed, loads,
                 savedLately, syncedLately>>

\* the answer of the server to a saved checkpoint carries the first directive
DirectiveArrives ==
  /\ pc = "carry"
  /\ directive = <<>>
  /\ tuning # <<>>
  /\ \E d \in CarryDirectives : \E S \in {applyDirective(Colony, d)} : Install(S)
  /\ UNCHANGED <<ret, opCount, lastCall, pc, kv, serverVars, loadFailed, undef, crashed, ticks, loads,
                 savedLately, syncedLately>>

NextCarry == CarryLoop \/ DirectiveArrives

SpecCarry == InitCarry /\ [][NextCarry]_vars

(***************************************************************************)
(* The rest specification: the same loop and the same directives, for a    *)
(* lone worker that found no food and has lain down to rest.               *)
(***************************************************************************)
RestPasses == 302

\* the hungry worker without food, after the passes in which it gave up the
\* search and began to rest
RestColonies ==
  {Passes(S, RestPasses) : S \in {T \in LoneColonies : T.foods = <<>> /\ T.ants[1].state = ST_HUNGRY}}

InitRest ==
  /\ pc = "carry"
  /\ NoServer
  /\ kv = <<>>
  /\ \E S \in RestColonies :
       /\ grid = S.grid /\ totalDug = S.totalDug /\ entranceX = S.entranceX
       /\ frame = S.frame /\ simDay = S.simDay /\ hasQueen = S.hasQueen
       /\ ants = S.ants
       /\ phTrail = S.phTrail /\ phFood = S.phFood /\ phDig = S.phDig
       /\ brood = S.brood /\ foods = S.foods /\ foodStores = S.foodStores
       /\ chambers = S.chambers /\ tuning = S.tuning /\ colonyGoals = S.colonyGoals
       /\ directive = S.directive /\ digPriority = S.digPriority
       /\ nextAntId = S.nextAntId /\ nextBroodId = S.nextBroodId
  /\ loadFailed = FALSE /\ undef = {} /\ crashed = FALSE
  /\ digLog = <<>> /\ ranLog = {} /\ ticks = 0 /\ loads = 1 /\ savedLately = FALSE
  /\ syncedLately = FALSE
  /\ ret = -1 /\ opCount = 0 /\ lastCall = "none"

SpecRest == InitRest /\ [][NextCarry]_vars

(***************************************************************************)
(* The egg-laying specification: whole ticks of a small colony whose brood *)
(* list brings the population up to the cap, around a frame at which the   *)
(* queen is due to lay.                                                    *)
(***************************************************************************)
QUEEN_RATE_MIN == 600
MaxQueenTicks == 4

\* n eggs lying in the shaft, the last brood item a pupa two frames from
\* emerging when withPupa
BroodOf(n, withPupa) ==
  [k \in 1..n |->
     [id |-> k,
      stage |-> IF withPupa /\ k = n THEN BROOD_PUPA ELSE BROOD_EGG,
      x |-> EntranceX10 * (PScale \div FIXED1), y |-> ShaftY10 * (PScale \div FIXED1),
      age |-> IF withPupa /\ k = n THEN BROOD_TIME_PUPA - 2 ELSE 10, fed |-> 0]]

\* the brood sizes: none, around the minimum brood buffer, around the cap
QueenBroods == {0, 2, 3, MAX_POPULATION - 4, MAX_POPULATION - 3, MAX_POPULATION - 2,
                MAX_POPULATION - 1}

\* a worker (fit, or two frames from starving) and a queen, or the worker alone
QueenAnts ==
  {<<restoreAnt(SavedWorker(ST_IDLE, EntranceX10 - 47, SurfaceY10, e)), restoreAnt(SavedQueen)>> :
     e \in {Fit, 2}}
    \cup {<<restoreAnt(SavedWorker(ST_IDLE, EntranceX10 - 47, SurfaceY10, Fit))>>}

\* the colonies of the egg-laying specification, two frames before the frame
\* at which the queen lays, with or without an item of surface food
QueenColonies ==
  {[create(ShaftGrid, EntranceCol, 0, 1, 1) EXCEPT
      !.ants = as, !.hasQueen = \E i \in DOMAIN as : as[i].isQueen,
      !.frame = QUEEN_RATE_MIN - 2,
      !.tuning = <<[DefaultTuning EXCEPT !.queenSpawnRate = QUEEN_RATE_MIN]>>,
      !.brood = BroodOf(n, p), !.nextBroodId = n + 1, !.nextAntId = INITIAL_WORKERS + 2,
      !.foods = IF fed THEN <<[x |-> CellCentre(1), y |-> SurfaceY10 * (PScale \div FIXED1),
                               amount |-> 1]>>
                ELSE <<>>] :
     as \in QueenAnts, n \in QueenBroods, p \in BOOLEAN, fed \in BOOLEAN}

QueenDraws == {DrawA, DrawB}

InitQueen ==
  /\ pc = "queen"
  /\ NoServer
  /\ kv = <<>>
  /\ \E S \in QueenColonies :
       /\ grid = S.grid /\ totalDug = S.totalDug /\ entranceX = S.entranceX
       /\ frame = S.frame /\ simDay = S.simDay /\ hasQueen = S.hasQueen
       /\ ants = S.ants
       /\ phTrail = S.phTrail /\ phFood = S.phFood /\ phDig = S.phDig
       /\ brood = S.brood /\ foods = S.foods /\ foodStores = S.foodStores
       /\ chambers = S.chambers /\ tuning = S.tuning /\ colonyGoals = S.colonyGoals
       /\ directive = S.directive /\ digPriority = S.digPriority
       /\ nextAntId = S.nextAntId /\ nextBroodId = S.nextBroodId
  /\ loadFailed = FALSE /\ undef = {} /\ crashed = FALSE
  /\ digLog = <<>> /\ ranLog = {} /\ ticks = 0 /\ loads = 1 /\ savedLately = FALSE
  /\ syncedLately = FALSE
  /\ ret = -1 /\ opCount = 0 /\ lastCall = "none"

\* one frame of the game loop: AF.colony.tick
QueenTick ==
  /\ pc = "queen"
  /\ ticks < MaxQueenTicks
  /\ \E rnd \in QueenDraws : \E S \in tick(Colony, rnd) : Install(S)
  /\ ticks' = ticks + 1
  /\ UNCHANGED <<ret, opCount, lastCall, pc, kv, serverVars, loadFailed, undef, crashed, loads,
                 savedLately, syncedLately>>

SpecQueen == InitQueen /\ [][QueenTick]_vars

\* network.js saveCheckpoint in the laying colony: the checkpoint is stored
QueenSave ==
  /\ pc = "queen"
  /\ ~savedLately
  /\ savedLately' = TRUE
  /\ kv' = <<serialize(Colony)>>
  /\ UNCHANGED serverVars
  /\ UNCHANGED <<terrainVars, colonyVars, ret, opCount, lastCall, nextAntId, nextBroodId, pc,
                 loadFailed, undef, crashed, digLog, ranLog, ticks, loads, syncedLately>>

\* the page is opened again and main.js begin() restores the stored
\* checkpoint: the scripts start over, so the module variable _nextBroodId is
\* 1 again (colony.js:9) and the ant id counter is reseeded from data.nextId
QueenReopen ==
  /\ pc = "queen"
  /\ kv # <<>>
  /\ loads < MaxLoads
  /\ \E r \in {deserialize(kv[1], 1, 1)} :
       /\ r.ok /\ r.undef = {}
       /\ Install(r.S)
  /\ loads' = loads + 1
  /\ savedLately' = FALSE
  /\ UNCHANGED <<ret, opCount, lastCall, pc, kv, serverVars, loadFailed, undef, crashed, ticks,
                 syncedLately>>

NextReopen ==
  \/ QueenTick
  \/ QueenSave
  \/ QueenReopen

SpecReopen == InitQueen /\ [][NextReopen]_vars

(***************************************************************************)
(* The stuck-escape specification: _unstick is called for one digger whose *)
(* stuck counter has reached the threshold, anywhere in the ground.        *)
(***************************************************************************)
\* the terrain with the cell (x, y) dug open, call by call
RECURSIVE Opened(_, _, _)
Opened(g, x, y) ==
  IF Cell(g, Idx(x, y)) = 0 THEN g ELSE Opened(dig(g, 0, x, y).grid, x, y)

\* a terrain on which a hauler has just put down the two grains of the first
\* two shaft cells, one on the other, beside the entrance
MoundGrid ==
  DepositGrains(Opened(Opened(terrainInit("low", <<2, SURFACE + 2>>), NestEntrance, SURFACE),
                       NestEntrance, SURFACE + 1),
                NestEntrance, NestEntrance, 2, 1, 0)

StuckGrids == FreshTerrains \cup {DeepShaftGrid, MoundGrid}

\* the cells a digger can be in: the row above the surface and the ground
StuckCells == {<<x, y>> : x \in 1..(COLS - 2), y \in (SURFACE - 1)..(ROWS - 1)}

InitStuck ==
  /\ pc = "stuck"
  /\ NoServer
  /\ kv = <<>>
  /\ \E g \in StuckGrids, p \in StuckCells :
       LET S == create(g, NestEntrance, 0, 1, 1)
       IN /\ grid = S.grid /\ totalDug = S.totalDug /\ entranceX = S.entranceX
          /\ frame = S.frame /\ simDay = S.simDay /\ hasQueen = FALSE
          /\ ants = <<[antCreate(1, CellCentre(p[1]), CellCentre(p[2]), FALSE,
                                  Fit * (EScale \div FIXED1), DefaultTuning.sandCarryMax)
                         EXCEPT !.state = ST_DIG, !.stuck = B_STUCK_TELEPORT * SScale]>>
          /\ phTrail = S.phTrail /\ phFood = S.phFood /\ phDig = S.phDig
          /\ brood = S.brood /\ foods = <<>> /\ foodStores = S.foodStores
          /\ chambers = S.chambers /\ tuning = S.tuning /\ colonyGoals = S.colonyGoals
          /\ directive = S.directive /\ digPriority = S.digPriority
          /\ nextAntId = S.nextAntId /\ nextBroodId = S.nextBroodId
  /\ loadFailed = FALSE /\ undef = {} /\ crashed = FALSE
  /\ digLog = <<>> /\ ranLog = {} /\ ticks = 0 /\ loads = 1 /\ savedLately = FALSE
  /\ syncedLately = FALSE
  /\ ret = -1 /\ opCount = 0 /\ lastCall = "none"

\* the stuck escape of _think: _unstick, and nothing else that frame
EscapeStuck ==
  /\ pc = "stuck"
  /\ ants[1].stuck >= B_STUCK_TELEPORT * SScale
  /\ ants' = <<_unstick(Colony, ants[1])>>
  /\ UNCHANGED <<grid, totalDug, entranceX, ret, opCount, lastCall, frame, simDay, hasQueen,
                 phTrail, phFood, phDig, brood, foods, foodStores, chambers, tuning,
                 colonyGoals, directive, digPriority, nextAntId, nextBroodId, pc, kv, serverVars,
                 loadFailed, undef, crashed, digLog, ranLog, ticks, loads, savedLately,
                 syncedLately>>

SpecStuck == InitStuck /\ [][EscapeStuck]_vars

(***************************************************************************)
(* The nest specification: ants dig the shaft and side pockets cell by     *)
(* cell, and the two periodic passes of the tick (chamber detection with   *)
(* type assignment, goal update) run in between in any order.              *)
(***************************************************************************)
\* the cells the ants dig: the shaft under the entrance and three pockets
NestDigs ==
  {<<NestEntrance, SURFACE + k>> : k \in 1..3}
    \cup {<<1, SURFACE + 2>>, <<NestEntrance - 2, SURFACE + 2>>, <<COLS - 2, SURFACE + 2>>}

\* the colony the nest starts from: fresh, or with a larva lying where the
\* left pocket will be and a food store where the right one will be
NestColonies ==
  LET S == create(terrainInit("low", <<COLS - 3, ROWS - 2>>), NestEntrance, 0, 1, 1)
  IN {S,
      [S EXCEPT !.brood = <<[id |-> 1, stage |-> BROOD_LARVA, x |-> CellCentre(1),
                             y |-> CellCentre(SURFACE + 2), age |-> 0, fed |-> 0]>>,
                !.foodStores = <<[x |-> CellCentre(COLS - 2), y |-> CellCentre(SURFACE + 2),
                                  amount |-> 1]>>,
                !.nextBroodId = 2]}

InitNest ==
  /\ pc = "nest"
  /\ NoServer
  /\ kv = <<>>
  /\ \E S \in NestColonies :
       /\ grid = S.grid /\ totalDug = S.totalDug /\ entranceX = S.entranceX
       /\ frame = S.frame /\ simDay = S.simDay /\ hasQueen = S.hasQueen
       /\ ants = S.ants
       /\ phTrail = S.phTrail /\ phFood = S.phFood /\ phDig = S.phDig
       /\ brood = S.brood /\ foods = S.foods /\ foodStores = S.foodStores
       /\ chambers = S.chambers /\ tuning = S.tuning /\ colonyGoals = S.colonyGoals
       /\ directive = S.directive /\ digPriority = S.digPriority
       /\ nextAntId = S.nextAntId /\ nextBroodId = S.nextBroodId
  /\ loadFailed = FALSE /\ undef = {} /\ crashed = FALSE
  /\ digLog = <<>> /\ ranLog = {} /\ ticks = 0 /\ loads = 1 /\ savedLately = FALSE
  /\ syncedLately = FALSE
  /\ ret = -1 /\ opCount = 0 /\ lastCall = "none"

NestRest ==
  UNCHANGED <<ret, opCount, lastCall, pc, kv, serverVars, loadFailed, undef, crashed, ticks, loads,
              savedLately, syncedLately>>

\* the colony after AF.terrain.dig at (x, y)
Dug(S, x, y) ==
  [S EXCEPT !.grid = dig(S.grid, S.totalDug, x, y).grid,
            !.totalDug = dig(S.grid, S.totalDug, x, y).totalDug]

\* an ant digs at cell p (AF.terrain.dig)
NestDig(p) ==
  /\ pc = "nest"
  /\ isSolid(grid, p[1], p[2])
  /\ \E S \in {Dug(Colony, p[1], p[2])} : Install(S)
  /\ NestRest

\* the chamber pass of the tick: detectChambers, then assignChamberTypes
NestDetect ==
  /\ pc = "nest"
  /\ \E D \in {detectChambers(Colony)} : \E S \in {assignChamberTypes(D)} : Install(S)
  /\ NestRest

\* the goal update of the tick
NestGoals ==
  /\ pc = "nest"
  /\ \E S \in {updateColonyGoals(Colony)} : Install(S)
  /\ NestRest

NestDigAny == \E p \in NestDigs : NestDig(p)

NextNest ==
  \/ NestDigAny
  \/ NestDetect
  \/ NestGoals

SpecNest == InitNest /\ [][NextNest]_vars

\* the game loop does not stop: as long as a dig or a pass can change the
\* colony, one of them does
SpecNestFair == SpecNest /\ WF_vars(NextNest)

(***************************************************************************)
(* The directed-nest specification: the nest grows as above while one      *)
(* directive arrives from the server at any moment; lastCall tells the     *)
(* goal update from the arrival of the directive.                          *)
(***************************************************************************)
\* the fresh colony, and the same colony after ten ants were dropped on it
DirectedColonies ==
  LET S == create(terrainInit("low", <<COLS - 3, ROWS - 2>>), NestEntrance, 0, 1, 1)
  IN {S, dropAnts(dropAnts(S, DROP_COUNT, 0), DROP_COUNT, 0)}

\* directives with a focus, without one, and with a dig priority of their own
FocusDirectives ==
  {[focus |-> f, tuning |-> <<>>] : f \in {"", "extend_shaft", "forage"}}
    \cup {[focus |-> "dig_chamber", tuning |-> [digPriority |-> 8]]}

InitDirected ==
  /\ pc = "nest"
  /\ NoServer
  /\ kv = <<>>
  /\ \E S \in DirectedColonies :
       /\ grid = S.grid /\ totalDug = S.totalDug /\ entranceX = S.entranceX
       /\ frame = S.frame /\ simDay = S.simDay /\ hasQueen = S.hasQueen
       /\ ants = S.ants
       /\ phTrail = S.phTrail /\ phFood = S.phFood /\ phDig = S.phDig
       /\ brood = S.brood /\ foods = S.foods /\ foodStores = S.foodStores
       /\ chambers = S.chambers /\ tuning = S.tuning /\ colonyGoals = S.colonyGoals
       /\ directive = S.directive /\ digPriority = S.digPriority
       /\ nextAntId = S.nextAntId /\ nextBroodId = S.nextBroodId
  /\ loadFailed = FALSE /\ undef = {} /\ crashed = FALSE
  /\ digLog = <<>> /\ ranLog = {} /\ ticks = 0 /\ loads = 1 /\ savedLately = FALSE
  /\ syncedLately = FALSE
  /\ ret = -1 /\ opCount = 0 /\ lastCall = "none"

DirectedRest ==
  UNCHANGED <<ret, opCount, pc, kv, serverVars, loadFailed, undef, crashed, ticks, loads,
              savedLately, syncedLately>>

\* the goal update of the tick
DirectedGoals ==
  /\ pc = "nest"
  /\ \E S \in {updateColonyGoals(Colony)} : Install(S)
  /\ lastCall' = "updateColonyGoals"
  /\ DirectedRest

\* the answer of the server to a saved checkpoint carries the first directive
FocusArrives ==
  /\ pc = "nest"
  /\ directive = <<>>
  /\ tuning # <<>>
  /\ \E d \in FocusDirectives : \E S \in {applyDirective(Colony, d)} : Install(S)
  /\ lastCall' = "applyDirective"
  /\ DirectedRest

\* the cells the ants dig: the shaft under the entrance and the left pocket
DirectedDigs == {<<NestEntrance, SURFACE + k>> : k \in 1..3} \cup {<<1, SURFACE + 2>>}

DirectedDigAny == \E p \in DirectedDigs : NestDig(p)

NextDirected ==
  \/ DirectedDigAny
  \/ NestDetect
  \/ DirectedGoals
  \/ FocusArrives

SpecDirected == InitDirected /\ [][NextDirected]_vars

(***************************************************************************)
(* The leader election: the pages of several sessions, the handler of POST *)
(* /api/leader and the lease on the key colony:leader.  Time passes in     *)
(* steps of SAVE_INTERVAL.  No colony is simulated.                        *)
(***************************************************************************)
NClients == 2
Sessions == 1..NClients
\* the requests to /api/leader that are in flight at a time
MaxCalls == 2
\* part_000:11, in seconds
LEADER_TTL == 60
\* network.js:15, in seconds
SAVE_INTERVAL == 30

\* the variables of the page and of the colony, which the server leaves alone
ServerOnly ==
  UNCHANGED <<terrainVars, colonyVars, ret, opCount, lastCall, nextAntId, nextBroodId, pc,
              kv, loadFailed, undef, crashed, digLog, ranLog, ticks, loads, savedLately,
              syncedLately>>

NoPage ==
  /\ kv = <<>>
  /\ grid = <<>> /\ totalDug = 0 /\ entranceX = -1
  /\ frame = 0 /\ simDay = 1 /\ hasQueen = FALSE /\ ants = <<>>
  /\ phTrail = <<>> /\ phFood = <<>> /\ phDig = <<>>
  /\ brood = <<>> /\ foods = <<>> /\ foodStores = <<>> /\ chambers = <<>>
  /\ tuning = <<>> /\ colonyGoals = <<>> /\ directive = <<>>
  /\ digPriority = DEFAULT_DIG_PRIORITY
  /\ nextAntId = 1 /\ nextBroodId = 1
  /\ loadFailed = FALSE /\ undef = {} /\ crashed = FALSE
  /\ digLog = <<>> /\ ranLog = {} /\ ticks = 0 /\ loads = 0 /\ savedLately = FALSE
  /\ syncedLately = FALSE
  /\ ret = -1 /\ opCount = 0 /\ lastCall = "none"

\* AF.network of a page that has just loaded (network.js:8-14); saveDue says
\* that Date.now() - lastSave has reached SAVE_INTERVAL
FreshNetwork ==
  [page |-> "open", isLeader |-> FALSE, leaderCheckDone |-> FALSE, saveDue |-> TRUE]

\* no page is open, the store holds neither a leader nor a checkpoint (0)
InitLeader ==
  /\ pc = "server"
  /\ NoPage
  /\ network = [s \in Sessions |-> [FreshNetwork EXCEPT !.page = "new"]]
  /\ store = [leader |-> 0, ttl |-> 0, checkpoint |-> 0]
  /\ calls = {}

\* a visitor opens the page: the script draws a new session id
OpenPage(s) ==
  /\ pc = "server"
  /\ network[s].page = "new"
  /\ network' = [network EXCEPT ![s] = FreshNetwork]
  /\ UNCHANGED <<store, calls>>
  /\ ServerOnly

\* the visitor closes the page: its game loop stops
ClosePage(s) ==
  /\ pc = "server"
  /\ network[s].page = "open"
  /\ network' = [network EXCEPT ![s].page = "closed"]
  /\ UNCHANGED <<store, calls>>
  /\ ServerOnly

\* the rest of saveCheckpoint after the leader check (network.js:62-72): the
\* leader whose last save is SAVE_INTERVAL old posts its checkpoint, which
\* /api/save stores (part_002:29)
Saving(n) == n.isLeader /\ n.saveDue
AfterCheck(n) == IF Saving(n) THEN [n EXCEPT !.saveDue = FALSE] ELSE n
Posted(st, s, n) == IF Saving(n) THEN [st EXCEPT !.checkpoint = s] ELSE st

\* a frame of the game loop calls saveCheckpoint before the leader check is
\* done: claimLeader posts the session to /api/leader (network.js:58-40)
ClaimLeader(s) ==
  /\ pc = "server"
  /\ network[s].page = "open" /\ ~network[s].leaderCheckDone
  /\ \E c \in {[session |-> s, at |-> "get", currentLeader |-> 0, isLeader |-> FALSE]} :
       /\ c \notin calls /\ Cardinality(calls) < MaxCalls
       /\ calls' = calls \cup {c}
  /\ UNCHANGED <<network, store>>
  /\ ServerOnly

\* part_000:28  const currentLeader = await kv.get('colony:leader')
LeaderGet(c) ==
  /\ pc = "server"
  /\ c.at = "get"
  /\ calls' = (calls \ {c}) \cup {[c EXCEPT !.at = "set", !.currentLeader = store.leader]}
  /\ UNCHANGED <<network, store>>
  /\ ServerOnly

\* part_000:30-37  no leader, or this session: set the key with the lease
\* and answer isLeader true; otherwise answer false
LeaderSet(c) ==
  /\ pc = "server"
  /\ c.at = "set"
  /\ IF c.currentLeader = 0 \/ c.currentLeader = c.session
     THEN /\ store' = [store EXCEPT !.leader = c.session, !.ttl = LEADER_TTL]
          /\ calls' = (calls \ {c}) \cup {[c EXCEPT !.at = "answer", !.isLeader = TRUE]}
     ELSE /\ store' = store
          /\ calls' = (calls \ {c}) \cup {[c EXCEPT !.at = "answer", !.isLeader = FALSE]}
  /\ UNCHANGED network
  /\ ServerOnly

\* part_000:38-41  a KV call throws: the handler answers isLeader true
LeaderThrows(c) ==
  /\ pc = "server"
  /\ c.at \in {"get", "set"}
  /\ calls' = (calls \ {c}) \cup {[c EXCEPT !.at = "answer", !.isLeader = TRUE]}
  /\ UNCHANGED <<network, store>>
  /\ ServerOnly

\* network.js:46-52 and 62-72: the answer arrives at the page, which takes
\* isLeader from it and goes on with saveCheckpoint; a closed page is gone
ClaimAnswered(c) ==
  /\ pc = "server"
  /\ c.at = "answer"
  /\ calls' = calls \ {c}
  /\ IF network[c.session].page = "open"
     THEN \E n \in {[network[c.session] EXCEPT !.isLeader = c.isLeader,
                                              !.leaderCheckDone = TRUE]} :
            /\ network' = [network EXCEPT ![c.session] = AfterCheck(n)]
            /\ store' = Posted(store, c.session, n)
     ELSE UNCHANGED <<network, store>>
  /\ ServerOnly

\* network.js:41-51: the request fails before it reaches the handler.  A
\* response that is not ok makes the page a leader and leaves the check open
\* (the return of line 44); a rejected fetch makes it a leader and closes
\* the check (lines 48-52)
ClaimFails(c) ==
  /\ pc = "server"
  /\ c.at = "get"
  /\ network[c.session].page = "open"
  /\ calls' = calls \ {c}
  /\ \E thrown \in BOOLEAN :
       \E n \in {[network[c.session] EXCEPT !.isLeader = TRUE,
                                            !.leaderCheckDone = @ \/ thrown]} :
         /\ network' = [network EXCEPT ![c.session] = AfterCheck(n)]
         /\ store' = Posted(store, c.session, n)
  /\ ServerOnly

\* a later frame of a page whose leader check is done (network.js:58-72)
SaveAgain(s) ==
  /\ pc = "server"
  /\ network[s].page = "open" /\ network[s].leaderCheckDone
  /\ Saving(network[s])
  /\ network' = [network EXCEPT ![s] = AfterCheck(@)]
  /\ store' = Posted(store, s, network[s])
  /\ UNCHANGED calls
  /\ ServerOnly

\* SAVE_INTERVAL seconds pass: the lease runs down and the key expires at 0
\* (the ex option of part_000:32); every page may save again
Elapse ==
  /\ pc = "server"
  /\ \E left \in {Max(0, store.ttl - SAVE_INTERVAL)} :
       store' = [store EXCEPT !.ttl = left, !.leader = IF left = 0 THEN 0 ELSE @]
  /\ network' = [s \in Sessions |-> [network[s] EXCEPT !.saveDue = TRUE]]
  /\ <<store', network'>> # <<store, network>>
  /\ UNCHANGED calls
  /\ ServerOnly

OpenAny == \E s \in Sessions : OpenPage(s)
CloseAny == \E s \in Sessions : ClosePage(s)
ClaimAny == \E s \in Sessions : ClaimLeader(s)
GetAny == \E c \in calls : LeaderGet(c)
SetAny_Leader == \E c \in calls : LeaderSet(c)
ThrowAny == \E c \in calls : LeaderThrows(c)
AnswerAny == \E c \in calls : ClaimAnswered(c)
FailAny == \E c \in calls : ClaimFails(c)
SaveAny == \E s \in Sessions : SaveAgain(s)

NextLeader ==
  \/ OpenAny
  \/ CloseAny
  \/ ClaimAny
  \/ GetAny
  \/ SetAny_Leader
  \/ ThrowAny
  \/ AnswerAny
  \/ FailAny
  \/ SaveAny
  \/ Elapse

SpecLeader == InitLeader /\ [][NextLeader]_vars

\* the game loop of an open page keeps running, the server finishes the
\* requests it got, answers arrive and time passes; nothing forces a page to
\* open or to close, or a request to fail
SpecLeaderFair ==
  /\ SpecLeader
  /\ WF_vars(ClaimAny) /\ WF_vars(GetAny) /\ WF_vars(SetAny_Leader)
  /\ WF_vars(AnswerAny) /\ WF_vars(SaveAny) /\ WF_vars(Elapse)

(***************************************************************************)
(* The admin command queue: the handler of POST /api/admin appends to the  *)
(* key colony:admin-commands, the handler of /api/tick runs the commands   *)
(* it finds and deletes the key.  `network` holds what the outside sees:   *)
(* the commands posted, the commands answered 200, and the commands the    *)
(* tick cycles have run, in order.  A command is its number.               *)
(***************************************************************************)
MaxCommands == 2
Commands == 1..MaxCommands
\* the invocations of /api/tick in a run, counted in ticks
MaxCycles == 3

InitAdmin ==
  /\ pc = "server"
  /\ NoPage
  /\ network = [posted |-> {}, accepted |-> {}, applied |-> <<>>]
  /\ store = [commands |-> <<>>]
  /\ calls = {}

\* a POST /api/admin with a valid secret and an action arrives (admin.ts:23-33)
AdminPost(k) ==
  /\ pc = "server"
  /\ k \notin network.posted /\ Cardinality(calls) < MaxCalls
  /\ network' = [network EXCEPT !.posted = @ \cup {k}]
  /\ calls' = calls \cup {[handler |-> "admin", cmd |-> k, at |-> "get", existing |-> <<>>]}
  /\ UNCHANGED store
  /\ ServerOnly

\* admin.ts:37  const existing = (await kv.get('colony:admin-commands')) || []
AdminGet(c) ==
  /\ pc = "server"
  /\ c.handler = "admin" /\ c.at = "get"
  /\ calls' = (calls \ {c}) \cup {[c EXCEPT !.at = "set", !.existing = store.commands]}
  /\ UNCHANGED <<network, store>>
  /\ ServerOnly

\* admin.ts:40-59  push the command, store the list back, answer 200
AdminSet(c) ==
  /\ pc = "server"
  /\ c.handler = "admin" /\ c.at = "set"
  /\ store' = [store EXCEPT !.commands = Append(c.existing, c.cmd)]
  /\ network' = [network EXCEPT !.accepted = @ \cup {c.cmd}]
  /\ calls' = calls \ {c}
  /\ ServerOnly

\* /api/tick is invoked, by the cron or by a viewer (part_001:31-44)
TickStart ==
  /\ pc = "server"
  /\ ticks < MaxCycles /\ Cardinality(calls) < MaxCalls
  /\ \E c \in {[handler |-> "tick", cmd |-> 0, at |-> "get", existing |-> <<>>]} :
       /\ c \notin calls
       /\ calls' = calls \cup {c}
  /\ ticks' = ticks + 1
  /\ UNCHANGED <<network, store>>
  /\ UNCHANGED <<terrainVars, colonyVars, ret, opCount, lastCall, nextAntId, nextBroodId, pc,
                 kv, loadFailed, undef, crashed, digLog, ranLog, loads, savedLately,
                 syncedLately>>

\* part_001:94-127  read the queue and run every command in it; with an
\* empty queue the handler goes on to the simulation
TickGet(c) ==
  /\ pc = "server"
  /\ c.handler = "tick" /\ c.at = "get"
  /\ network' = [network EXCEPT !.applied = @ \o store.commands]
  /\ calls' = IF store.commands = <<>> THEN calls \ {c}
              ELSE (calls \ {c}) \cup {[c EXCEPT !.at = "del", !.existing = store.commands]}
  /\ UNCHANGED store
  /\ ServerOnly

\* part_001:129  await kv.del('colony:admin-commands')
TickDel(c) ==
  /\ pc = "server"
  /\ c.handler = "tick" /\ c.at = "del"
  /\ store' = [store EXCEPT !.commands = <<>>]
  /\ calls' = calls \ {c}
  /\ UNCHANGED network
  /\ ServerOnly

PostAny == \E k \in Commands : AdminPost(k)
AdminGetAny == \E c \in calls : AdminGet(c)
AdminSetAny == \E c \in calls : AdminSet(c)
TickGetAny == \E c \in calls : TickGet(c)
TickDelAny == \E c \in calls : TickDel(c)

NextAdmin ==
  \/ PostAny
  \/ AdminGetAny
  \/ AdminSetAny
  \/ TickStart
  \/ TickGetAny
  \/ TickDelAny

SpecAdmin == InitAdmin /\ [][NextAdmin]_vars

(***************************************************************************)
(* Claims about the terrain API (checked under SpecTerrain)                *)
(***************************************************************************)

\* C1: dig(x,y) on a cell of hardness 1 sets it to 0 and adds exactly 1 to
\* totalDug; on hardness >= 2 it lowers the hardness by exactly 1 and leaves
\* totalDug alone; on an open cell it changes nothing and returns 0.
C1_DigContract ==
  [][\A p \in DigPoints :
       (ret' # -1 /\ InBounds(p[1], p[2]) /\ CallDig(p[1], p[2])) =>
         LET i == Idx(p[1], p[2])
             h == grid[i]
         IN /\ (h = 1 => grid'[i] = 0 /\ totalDug' = totalDug + 1 /\ ret' # 0)
            /\ (h >= 2 => grid'[i] = h - 1 /\ totalDug' = totalDug /\ ret' # 0)
            /\ (h = 0 => grid' = grid /\ totalDug' = totalDug /\ ret' = 0)]_vars

\* C1 witness: one dig has cleared a ground cell and another has weakened
\* the centre of a bedrock patch, whose rim is still intact
C1_Witness ==
  /\ pc = "terrain" /\ totalDug = 1 /\ ret = 1
  /\ \E p \in DigPoints :
       InBounds(p[1], p[2]) /\ p[2] >= SURFACE /\ grid[Idx(p[1], p[2])] = 0
  /\ grid[Idx(COLS - 3, ROWS - 2)] = BEDROCK - 1
  /\ grid[Idx(COLS - 2, ROWS - 2)] = BEDROCK

\* C2: every cell holds a hardness in 0..5 after any sequence of dig,
\* stabilization, sand deposit, entrance clearing and gravity operations.
C2_HardnessRange ==
  pc = "terrain" => \A i \in DOMAIN grid : grid[i] \in 0..BEDROCK

\* C2 witness: digs, a reinforcement and a deposit have all acted
C2_Witness ==
  /\ pc = "terrain" /\ opCount = MaxOps /\ totalDug >= 1
  /\ \E i \in DOMAIN grid : i < SURFACE * COLS /\ grid[i] = 1
  /\ \E i \in DOMAIN grid : i >= SURFACE * COLS /\ grid[i] = 0

(***************************************************************************)
(* Claims about the colony tick and the checkpoints (checked under Spec)   *)
(***************************************************************************)

\* the step is one whole frame of the game loop
TickStep == pc = "running" /\ pc' = "running" /\ ticks' = ticks + 1

\* deserialize(serialize(colony)) of the running colony
RoundTrip == deserialize(serialize(Colony), nextAntId, nextBroodId)

\* the dig calls of the last tick that cleared their cell
ClearingDigs == {k \in DOMAIN digLog : digLog[k] = 1}

\* C3: across the ticks of one colony totalDug never decreases; it grows by
\* exactly 1 for each dig that clears a cell to hardness 0, and no other
\* step of the running page changes it.
C3_TotalDugCounts ==
  [][(pc = "running" /\ pc' = "running") =>
       /\ totalDug' >= totalDug
       /\ totalDug' = totalDug + (IF ticks' # ticks THEN Cardinality(ClearingDigs') ELSE 0)]_vars

\* C3 witness: a tick in which one dig cleared a cell and another only
\* weakened one
C3_Witness ==
  /\ pc = "running" /\ ticks >= 1
  /\ ClearingDigs # {}
  /\ \E k \in DOMAIN digLog : digLog[k] >= 2
  /\ totalDug > Cardinality(ClearingDigs)

\* C4: if the queen's energy is 0, the next tick removes her from the ant
\* list and sets hasQueen to false.
C4_StarvedQueenRemoved ==
  [][(TickStep /\ \E i \in DOMAIN ants : ants[i].isQueen /\ ants[i].energy <= 0) =>
       /\ \A j \in DOMAIN ants' : ~ants'[j].isQueen
       /\ ~hasQueen']_vars

\* C5: a worker whose energy is 0 is removed from the ant list by the next
\* tick without running sense/think/act in it, and that tick runs to its
\* end: the frame counter advances and no exception escapes.
C5_StarvedWorkerRemoved ==
  [][(pc = "running" /\ ticks' = ticks + 1) =>
       \A i \in DOMAIN ants :
         (~ants[i].isQueen /\ ants[i].energy = 0) =>
           /\ \A j \in DOMAIN ants' : ants'[j].id # ants[i].id
           /\ i \notin ranLog'
           /\ pc' = "running" /\ ~crashed' /\ frame' = frame + 1]_vars

\* C5 witness: the colony restored from a checkpoint holding a worker with
\* energy 0 has run one tick, and that worker is gone
C5_Witness ==
  /\ pc = "running" /\ loads = 1 /\ ticks = 1 /\ ~savedLately /\ ~crashed
  /\ kv # <<>>
  /\ \E k \in DOMAIN kv[1].ants :
       /\ ~kv[1].ants[k].isQueen /\ kv[1].ants[k].energy = 0
       /\ \A j \in DOMAIN ants : ants[j].id # kv[1].ants[k].id
  /\ ants # <<>>

\* C6 as stated: the round trip yields the same ants in the same order,
\* each with exactly the same id, position and state code.
C6_ExactAgents ==
  pc = "running" =>
    LET rt == RoundTrip
    IN /\ rt.ok
       /\ Len(rt.S.ants) = Len(ants)
       /\ \A k \in DOMAIN ants :
            /\ rt.S.ants[k].id = ants[k].id
            /\ rt.S.ants[k].x = ants[k].x
            /\ rt.S.ants[k].y = ants[k].y
            /\ rt.S.ants[k].state = ants[k].state

\* C6 amended: the round trip yields the same ants in the same order, each
\* with exactly the same id and state code, and a position that is the
\* original rounded to one decimal: a multiple of 0.1 px within 0.05 px of it.
C6_AgentsToOneDecimal ==
  pc = "running" =>
    LET rt == RoundTrip
        tenth == PScale \div FIXED1
    IN /\ rt.ok
       /\ Len(rt.S.ants) = Len(ants)
       /\ \A k \in DOMAIN ants :
            LET r == rt.S.ants[k]
            IN /\ r.id = ants[k].id
               /\ r.state = ants[k].state
               /\ r.x % tenth = 0 /\ 2 * Abs(r.x - ants[k].x) <= tenth
               /\ r.y % tenth = 0 /\ 2 * Abs(r.y - ants[k].y) <= tenth

\* C6 witness: after a tick an ant stands off the 0.1 px raster and the
\* round trip moves it
C6_Witness ==
  /\ pc = "running" /\ ticks >= 1
  /\ LET rt == RoundTrip
     IN \E k \in DOMAIN ants :
          /\ ants[k].x % (PScale \div FIXED1) # 0
          /\ rt.S.ants[k].x # ants[k].x
          /\ rt.S.ants[k].id = ants[k].id

\* C7: the round trip yields a terrain grid identical byte for byte and
\* identical frame, simDay and totalDug counters.
C7_TerrainAndCounters ==
  pc = "running" =>
    LET rt == RoundTrip
    IN /\ rt.ok
       /\ rt.S.grid = grid
       /\ rt.S.frame = frame
       /\ rt.S.simDay = simDay
       /\ rt.S.totalDug = totalDug

\* C7 witness: a full-size grid that ticks have dug into, with counters
\* that have advanced, survives the round trip
C7_Witness ==
  /\ pc = "running" /\ ticks = MaxTicks
  /\ Cardinality(DOMAIN grid) = NCELLS
  /\ ClearingDigs # {} /\ totalDug > 0 /\ frame > 0
  /\ RoundTrip.S.grid = grid


\* C8: for every cell of the three pheromone channels the value after the
\* round trip is the original rounded to four decimals, and no cell changes
\* by more than that rounding step (0.0001).
C8_PheromoneRounding ==
  pc = "running" =>
    LET rt == RoundTrip
        col == Colony
    IN \A ch \in PheromoneChannels :
         LET before == col[ch]
             after == rt.S[ch]
         IN /\ DOMAIN after = DOMAIN before
            /\ \A i \in DOMAIN before :
                 LET v == before[i]
                     d == after[i]
                     n == (2 * d * 10000 + PhOne) \div (2 * PhOne)
                 IN /\ d = PhOf(n, 10000)
                    /\ 2 * Abs(n * PhOne - v * 10000) <= PhOne
                    /\ Abs(d - v) * 10000 <= PhOne

\* C8 witness: a decayed trail value that the round trip changes
C8_Witness ==
  /\ pc = "running" /\ frame % DECAY_EVERY = 0 /\ ticks >= 1
  /\ LET after == RoundTrip.S.phTrail
     IN \E i \in DOMAIN phTrail :
          phTrail[i] # 0 /\ after[i] # 0 /\ after[i] # phTrail[i]

\* the terrain blob of checkpoint c does not decode to COLS x ROWS cells
Damaged(c) ==
  LET g == _base64ToUint8(c.grid)
  IN ~g.ok \/ Cardinality(DOMAIN g.arr) # NCELLS

\* C9: when the checkpoint's terrain cannot be decoded into a grid of
\* exactly COLS x ROWS cells, begin() starts a fresh colony and no failure
\* reaches the caller.
C9_DamagedTerrainStartsFresh ==
  [][(pc = "boot" /\ pc' = "running" /\ kv # <<>> /\ Damaged(kv[1])) =>
       /\ Cardinality(DOMAIN grid') = NCELLS
       /\ frame' = 0 /\ totalDug' = 0
       /\ Len(ants') = INITIAL_WORKERS + 1
       /\ ~crashed']_vars

\* the colony holds the default of the optional checkpoint field f
DefaultTaken(f) ==
  CASE f \in PheromoneChannels -> Colony[f] = ZeroField
    [] f \in {"ants", "foods", "chambers", "brood", "foodStores",
              "directive", "colonyGoals"} -> Colony[f] = <<>>
    [] f \in {"frame", "totalDug"} -> Colony[f] = 0
    [] f = "simDay" -> simDay = 1
    [] f = "hasQueen" -> hasQueen = FALSE
    [] f = "entranceX" -> entranceX = -1
    [] f = "digPriority" -> digPriority = DEFAULT_DIG_PRIORITY
    [] f = "tuning" -> tuning = <<DefaultTuning>>
    [] OTHER -> TRUE

\* C10: deserialize does not fail on a checkpoint that lacks optional
\* fields; each missing field takes its default (empty collection, initial
\* counter value, default tuning; the id counter carries on from its
\* current value), and every later tick runs to its end.
C10_MissingFieldsDefaulted ==
  [][/\ (pc = "boot" /\ pc' = "running" /\ kv # <<>> /\ _base64ToUint8(kv[1].grid).ok) =>
          /\ ~loadFailed' /\ undef' = {}
          /\ \A f \in kv[1].missing : DefaultTaken(f)'
          /\ "nextId" \in kv[1].missing => nextAntId' = nextAntId + Len(ants')
     /\ (pc = "running" /\ ticks' # ticks) =>
          pc' = "running" /\ ~crashed' /\ frame' = frame + 1]_vars

\* C10 witness: the colony restored from a checkpoint lacking every
\* optional field has run all its ticks
C10_Witness ==
  /\ pc = "running" /\ loads = 1 /\ ~savedLately /\ ~crashed
  /\ kv # <<>> /\ kv[1].missing = OptionalFields
  /\ ticks = MaxTicks /\ frame = MaxTicks
  /\ ants = <<>> /\ tuning = <<DefaultTuning>>

(***************************************************************************)
(* Claims about ids, gravity, brood, days and pheromones                   *)
(***************************************************************************)

\* C11: in every state reached through colony creation, ticks, dropped ants
\* and checkpoint restores (a checkpoint fetched by a syncing client and then
\* discarded included), the ants of the colony have pairwise distinct ids.
\* Stated for a page on its first load that has not saved, so that the stored
\* checkpoint is the one it started from, and for checkpoints that carry the
\* nextId serialize writes.
C11_DistinctIds ==
  (loads <= 1 /\ ~savedLately /\ (kv = <<>> \/ "nextId" \notin kv[1].missing)) =>
    \A i, j \in DOMAIN ants : i # j => ants[i].id # ants[j].id

\* the cells a grain can reach cell i from in one pass: straight above it and
\* the two diagonals above it
GrainSources(i) ==
  {j \in DOMAIN grid : j \div COLS = i \div COLS - 1 /\ Abs((j % COLS) - (i % COLS)) <= 1}
LooseSand(v) == v = 1 \/ v = 2

\* C12: one gravity pass alters only loose cells (hardness 1 or 2) and the
\* open cells they move into: a cell of hardness 3 or more keeps its value, a
\* cell that changes was loose or was open and now holds a loose grain that a
\* cell above it held before, and a grid without a loose cell is left as it was.
C12_GravityMovesLooseOnly ==
  [][(lastCall' = "gravity" /\ CallGravity) =>
       /\ \A i \in DOMAIN grid : grid[i] >= 3 => grid'[i] = grid[i]
       /\ \A i \in DOMAIN grid : grid'[i] # grid[i] =>
            \/ LooseSand(grid[i])
            \/ grid[i] = 0 /\ LooseSand(grid'[i]) /\ \E j \in GrainSources(i) : grid[j] = grid'[i]
       /\ (\A i \in DOMAIN grid : ~LooseSand(grid[i])) => grid' = grid]_vars

\* gravity has just let a grain fall into a dug shaft, between reinforced walls
C12_Witness ==
  /\ lastCall = "gravity"
  /\ LooseSand(grid[Idx(COLS - 3, SURFACE)])
  /\ grid[Idx(COLS - 3, SURFACE - 1)] = 0
  /\ grid[Idx(COLS - 3, SURFACE + 1)] = 0
  /\ grid[Idx(COLS - 4, SURFACE)] >= 3

\* gravity has just run over the bedrock-enclosed open cell
C12_WitnessEnclosed == lastCall = "gravity" /\ grid = EnclosedGrid

\* the brood items of the next state that carry the id of brood item i
Grown(i) == {j \in DOMAIN brood' : brood'[j].id = brood[i].id}
Larvae == {i \in DOMAIN brood : brood[i].stage = BROOD_LARVA}

\* C13: in every tick a larva becomes a pupa exactly when its age reaches
\* the larval duration (1800) in that brood pass and it has been fed at least
\* 3 times by then; a larva that is due and fed is a pupa after the pass, and
\* no larva with fewer than 3 feedings becomes one.
C13_PupatesWhenDueAndFed ==
  [][TickStep =>
       \A i \in Larvae :
         /\ \A j \in Grown(i) :
              /\ brood'[j].stage \in {BROOD_LARVA, BROOD_PUPA}
              /\ brood'[j].fed >= brood[i].fed
              /\ brood'[j].stage = BROOD_PUPA <=>
                   (brood[i].age + 1 >= BROOD_TIME_LARVA
                      /\ brood'[j].fed >= LARVA_FEEDINGS_NEEDED)
         /\ (brood[i].age + 1 >= BROOD_TIME_LARVA /\ brood[i].fed >= LARVA_FEEDINGS_NEEDED)
              => \E j \in Grown(i) : brood'[j].stage = BROOD_PUPA /\ brood'[j].age = 0]_vars

\* the larva that was one meal short got its third meal from the nurse and
\* has just become a pupa, while a larva past that age with no meal is still a larva
C13_Witness ==
  /\ \E j \in DOMAIN brood :
       /\ brood[j].id = LarvaId.lastMeal /\ brood[j].stage = BROOD_PUPA
       /\ brood[j].age = 0 /\ brood[j].fed = LARVA_FEEDINGS_NEEDED
  /\ \E j \in DOMAIN brood :
       /\ brood[j].id = LarvaId.slow /\ brood[j].stage = BROOD_LARVA
       /\ brood[j].age > BROOD_TIME_LARVA

\* C14: in every tick a larva is removed from the brood list only when its
\* age exceeds twice the larval duration (3600) in that brood pass and it has
\* had fewer than 3 feedings, and no larva with fewer than 3 feedings
\* outlives that pass.
C14_StarvesAfterTwiceLarvalTime ==
  [][TickStep =>
       \A i \in Larvae :
         /\ Grown(i) = {} =>
              (brood[i].age + 1 > BROOD_TIME_LARVA * 2
                 /\ brood[i].fed < LARVA_FEEDINGS_NEEDED)
         /\ \A j \in Grown(i) :
              (brood'[j].stage = BROOD_LARVA /\ brood'[j].fed < LARVA_FEEDINGS_NEEDED)
                => brood'[j].age <= BROOD_TIME_LARVA * 2]_vars

\* two ticks after the restore the unfed larva, then at age 3599, is gone
\* while the other unfed larva lives on
C14_Witness ==
  /\ ticks = 2 /\ loads = 1 /\ kv = <<LarvaCheckpoint>> /\ pc = "running"
  /\ \A j \in DOMAIN brood : brood[j].id # LarvaId.starved
  /\ \E j \in DOMAIN brood : brood[j].id = LarvaId.slow /\ brood[j].fed = 0

\* C15: on a fresh colony that is only ticked, the day counter is
\* 1 + floor(frame / 18000) after every tick: 1 through frame 17999 and 2 once
\* exactly 18000 ticks have run.
C15_DayFromFrame == simDay = 1 + frame \div DAY_FRAMES

\* the 18000th tick has just run and the second day has begun
C15_Witness == frame = DAY_FRAMES /\ simDay = 2

Queens == {i \in DOMAIN ants : ants[i].isQueen}

\* C16: the colony that begin() creates when no checkpoint can be restored
\* holds exactly 9 agents, one of them the queen and 8 workers, with hasQueen
\* true, totalDug 0, frame 0 and no brood.
C16_FreshColony ==
  [][(pc = "boot" /\ pc' = "running" /\ (kv = <<>> \/ loadFailed')) =>
       /\ Len(ants') = 9
       /\ Cardinality({i \in DOMAIN ants' : ants'[i].isQueen}) = 1
       /\ Cardinality({i \in DOMAIN ants' : ~ants'[i].isQueen}) = 8
       /\ hasQueen' /\ totalDug' = 0 /\ frame' = 0 /\ brood' = <<>>]_vars

\* a colony has just been created because nothing was stored
C16_Witness ==
  /\ pc = "running" /\ kv = <<>> /\ ticks = 0 /\ frame = 0
  /\ Len(ants) = 9 /\ Cardinality(Queens) = 1 /\ hasQueen

\* C17: after every deposit of a non-negative amount and every decay pass,
\* each cell of the three pheromone fields lies in [0, 1.5]; a deposit leaves
\* its cell at the old value plus the amount, capped at 1.5, and the other
\* cells and fields as they were.
C17_DepositsCapped ==
  [][/\ \A m \in PheromoneChannels : \A i \in DOMAIN Field(m)' :
          Field(m)'[i] >= 0 /\ Field(m)'[i] <= PhCap
     /\ lastCall' = "set" =>
          \A m \in PheromoneChannels : \A i \in DOMAIN Field(m) :
            Field(m)'[i] =
              IF m = ret'.of /\ InBounds(ret'.at[1], ret'.at[2])
                 /\ i = Idx(ret'.at[1], ret'.at[2])
              THEN Min(PhCap, Field(m)[i] + ret'.value)
              ELSE Field(m)[i]]_vars

\* a deposit of 1.0 on a cell that held 1.0 has just left it at the cap
C17_Witness ==
  /\ lastCall = "set" /\ ret.value = PhOne /\ InBounds(ret.at[1], ret.at[2])
  /\ Field(ret.of)[Idx(ret.at[1], ret.at[2])] = PhCap

\* decay calls after which a field is all zero whatever it held: the counts
\* for exact arithmetic are 885, 1551 and 619 (log(0.003 / 1.5) over the log
\* of the retention factor); 16 fraction bits round a little slower
DecayCalls == [phTrail |-> 900, phFood |-> 1600, phDig |-> 650]

\* C18: with no deposit in between, a decay pass never raises a cell and
\* never leaves one negative, and after a number of passes fixed per channel
\* every cell of the channel is exactly 0.
C18_DecayToZero ==
  [][lastCall' = "decay" =>
       \A m \in PheromoneChannels : \A i \in DOMAIN Field(m) :
         /\ Field(m)'[i] >= 0
         /\ Field(m)'[i] <= Field(m)[i]
         /\ opCount' >= DecayCalls[m] => Field(m)'[i] = 0]_vars

\* after 1500 passes the food cell is still above zero, so it started at
\* the cap, while the faster channels have reached zero everywhere
C18_Witness ==
  /\ pc = "decaying" /\ opCount = 1500
  /\ phFood # ZeroField /\ phTrail = ZeroField /\ phDig = ZeroField

\* C19: a gradient query on a field that is zero everywhere returns a null
\* angle and strength 0, wherever the query is made, sample points outside
\* the grid included.
C19_ZeroFieldNoGradient ==
  (lastCall = "gradient" /\ Field(ret.of) = ZeroField) =>
    (ret.found.angle = 0 /\ ret.found.strength = 0)

\* a query from outside the grid on a zero field, next to a field that
\* holds a deposit
C19_Witness ==
  /\ lastCall = "gradient" /\ Field(ret.of) = ZeroField
  /\ ~InBounds(ret.at[1], ret.at[2])
  /\ \E m \in PheromoneChannels : Field(m) # ZeroField

\* C20: a query or a dig at a position outside the grid changes nothing:
\* cellAt answers the solid sentinel 255, isSolid answers true, and dig
\* returns 0 and leaves every cell and totalDug as they were.
C20_OutsideTheGrid ==
  [][\A p \in DigPoints :
       ~InBounds(p[1], p[2]) =>
         /\ (lastCall' = "cellAt" /\ CallCellAt(p[1], p[2])) => ret' = 255
         /\ (lastCall' = "isSolid" /\ CallIsSolid(p[1], p[2])) => ret' = 1
         /\ (lastCall' = "dig" /\ CallDig(p[1], p[2])) => ret' = 0
         /\ (lastCall' \in {"cellAt", "isSolid", "dig"}
               /\ (CallCellAt(p[1], p[2]) \/ CallIsSolid(p[1], p[2]) \/ CallDig(p[1], p[2])))
              => (grid' = grid /\ totalDug' = totalDug)]_vars

\* cellAt has just answered 255, which no cell of the grid holds, on a
\* terrain that has been dug into
C20_Witness ==
  /\ pc = "terrain" /\ lastCall = "cellAt" /\ ret = SOLID_SENTINEL /\ totalDug >= 1

(***************************************************************************)
(* Claims about the think phase, sand, chambers and colony goals           *)
(***************************************************************************)

\* the ants that went through sense, think and act in the tick just taken,
\* and still sit at the index they had
Thinkers ==
  {i \in DOMAIN ants : i \in ranLog' /\ i \in DOMAIN ants' /\ ants'[i].id = ants[i].id
                         /\ Len(ants') >= Len(ants)}

\* C21: the hunger rule wins over the rest rule: a worker that is neither
\* resting nor hungry and thinks with its energy below the hunger threshold
\* (350) ends the tick in HUNGRY, also when it is due for a rest.
C21_HungerBeforeRest ==
  [][TickStep =>
       \A i \in Thinkers :
         (~ants[i].isQueen /\ ants[i].state \notin {ST_REST, ST_HUNGRY}
            /\ ants'[i].energy < B_HUNGER_THRESHOLD * EScale)
           => ants'[i].state = ST_HUNGRY]_vars

\* C22: bedrock is indestructible: a cell of hardness 5 still has hardness 5
\* after a tick of the colony, whatever the ants dig, reinforce, deposit or
\* let fall in it.
C22_BedrockStays ==
  [][TickStep => \A i \in DOMAIN grid : grid[i] = BEDROCK => grid'[i] = BEDROCK]_vars

\* C23: a gravity pass makes every loose cell (hardness 1 or 2), at any row
\* of the grid, fall one row when the cell below it is open at the moment it
\* is visited: the cell below, open before the pass and not filled by the
\* slide of the left neighbour, holds the grain afterwards.
C23_LooseFallsAtAnyRow ==
  [][(lastCall' = "gravity" /\ CallGravity) =>
       \A x \in 0..(COLS - 1), y \in 0..(ROWS - 2) :
         (/\ LooseSand(grid[Idx(x, y)])
          /\ grid[Idx(x, y + 1)] = 0
          /\ (x = 0 \/ ~LooseSand(grid[Idx(x - 1, y)])))
           => grid'[Idx(x, y + 1)] = grid[Idx(x, y)]]_vars

\* C24: while a FOOD chamber exists, an ant in CARRY keeps its food until it
\* adds it to a food store: over a tick it either still carries the food or
\* the stores hold one unit more, and no food is put down at the surface.
C24_CarriesToGranary ==
  [][TickStep =>
       \A i \in Thinkers :
         (/\ ants[i].state = ST_CARRY /\ ants[i].carrying
          /\ \E k \in DOMAIN chambers : chambers[k].type = CHAMBER_FOOD)
           => \/ ants'[i].carrying
              \/ Stored(foodStores') = Stored(foodStores) + 1]_vars

\* the phase of the colony's goals, "" before the first goal update
Phase == IF colonyGoals = <<>> THEN "" ELSE colonyGoals[1].phase

NeverChamberPhase == Phase # "chamber"

\* the chambers that carry type t
OfType(t) == {k \in DOMAIN chambers : chambers[k].type = t}

\* C26: after every detection and type-assignment pass at most one chamber is
\* the royal chamber, at most one the brood chamber, at most one the food
\* chamber and at most one the midden, types carried over from the previous
\* pass included
C26_OneChamberPerType ==
  \A t \in {CHAMBER_ROYAL, CHAMBER_BROOD, CHAMBER_FOOD, CHAMBER_MIDDEN} :
    Cardinality(OfType(t)) <= 1

\* the workers of the colony
Workers == {i \in DOMAIN ants : ~ants[i].isQueen}

\* C27: a hungry worker eventually eats and goes idle, or starves and is
\* removed, food or no food
C27_HungryFedOrDead ==
  (\E i \in Workers : ants[i].state = ST_HUNGRY)
    ~> (Workers = {} \/ \E i \in Workers : ants[i].state = ST_IDLE)

\* the cell the ant a stands in is open
InOpenCell(a) == ~isSolid(grid, gxOf(a), gyOf(a))

\* C28: the stuck escape puts the ant into an open cell, whether found above,
\* to the side or at the surface fallback, and resets its stuck counter
C28_EscapesIntoOpenCell ==
  [][EscapeStuck => (InOpenCell(ants'[1]) /\ ants'[1].stuck = 0)]_vars

\* the grains all ants of the list carry
RECURSIVE Carried(_)
Carried(list) ==
  IF list = <<>> THEN 0
  ELSE IF Len(list) = 1 THEN list[1].carryingSand
  ELSE Carried(SubSeq(list, 1, Len(list) \div 2))
         + Carried(SubSeq(list, Len(list) \div 2 + 1, Len(list)))

\* the dig calls of the log that returned 1
Digs(log) == Cardinality({k \in DOMAIN log : log[k] > 0})

\* the cells that were open in g and hold loose sand in h
Placed(g, h) == Cardinality({i \in DOMAIN g : g[i] = 0 /\ h[i] = 1})

\* C29: no excavated sand disappears: over one pass of the ant loop the sand
\* the ants carry grows by one grain per successful dig and shrinks only by
\* the grains put into the terrain as loose cells
C29_SandAccounted ==
  [][(AntLoop /\ Len(ants') = Len(ants))
       => Carried(ants') = Carried(ants) + Digs(digLog') - Placed(grid, grid')]_vars

\* C30: at all times every agent carries at least no grain and at most
\* maxSandCarry grains, also after a tuning directive has changed the sand-carry
\* capacity while the agent carries sand
C30_CarryWithinCapacity ==
  \A i \in DOMAIN ants :
    0 <= ants[i].carryingSand /\ ants[i].carryingSand <= ants[i].maxSandCarry

\* C31: while an agent is in REST, a think step never lowers its energy and
\* leaves it at most at the cap antMaxEnergy * 11, for every value of the cap
\* (the frame's drain of 0.1 comes before the think step)
C31_RestNeverLowersEnergy ==
  [][(CarryLoop /\ Len(ants) = 1 /\ Len(ants') = 1 /\ ants[1].state = ST_REST)
       => /\ ants'[1].energy >= ants[1].energy - EScale \div 10
          /\ ants'[1].energy <= MaxEnergy(Colony')]_vars

\* C32: a tick adds at most one egg, and adds one only when the frame count is
\* a multiple of the queen spawn interval, a queen is alive in the agent list,
\* agents plus brood number fewer than the population cap when she lays, and
\* there is food or fewer than 3 brood; a tick never raises agents plus brood
\* above the cap
C32_EggOnlyWhenAllowed ==
  [][QueenTick =>
       LET laid == {k \in DOMAIN brood' : brood'[k].id >= nextBroodId}
           emerged == nextAntId' - nextAntId
       IN /\ Cardinality(laid) <= 1
          /\ nextBroodId' - nextBroodId = Cardinality(laid)
          /\ laid # {} =>
               /\ frame' % Tun(Colony', "queenSpawnRate") = 0
               /\ hasQueen' /\ \E i \in DOMAIN ants' : ants'[i].isQueen
               /\ Len(ants') - emerged + Len(brood) < MAX_POPULATION
               /\ (TotalFood(foodStores') + TotalFood(foods') > 0 \/ Len(brood) < 3)
          /\ Len(ants') + Len(brood') <= Max(MAX_POPULATION, Len(ants) + Len(brood))]_vars

\* the queen has just laid the egg that fills the colony up to the cap, in the
\* tick in which a pupa emerged
C32_Witness ==
  /\ pc = "queen"
  /\ frame % Tun(Colony, "queenSpawnRate") = 0
  /\ Len(ants) + Len(brood) = MAX_POPULATION
  /\ \E k \in DOMAIN brood : brood[k].id = nextBroodId - 1 /\ brood[k].stage = BROOD_EGG
                              /\ brood[k].age = 1
  /\ \E i \in DOMAIN ants : ants[i].id = nextAntId - 1 /\ ants[i].id > INITIAL_WORKERS + 1

\* C33: while a directive with a focus is present, the goal update never
\* assigns the dig priority of the phase: it leaves the dig priority the
\* directive chose, which only the food emergency of the same update caps
C33_FocusKeepsDigPriority ==
  [][(DirectedGoals /\ directive # <<>> /\ directive[1].focus # "")
       => digPriority' = IF colonyGoals'[1].needsFood
                         THEN Min(digPriority, HUNGRY_DIG_PRIORITY) ELSE digPriority]_vars

\* a goal update has run after a directive with a focus arrived, and the dig
\* priority is the directive's, not the one of the phase the update computed
C33_Witness ==
  /\ lastCall = "updateColonyGoals"
  /\ directive # <<>> /\ directive[1].focus = "forage"
  /\ colonyGoals # <<>> /\ ~colonyGoals[1].needsFood
  /\ digPriority = 2
  /\ digPriority # PhasePriority(colonyGoals[1].phase)

\* the pheromone cell an ant deposits on in _act: the cell it was sensed in
Scented(f, a) == phGet(f, gxOf(a), gyOf(a)) > 0

\* C34: in every act step an agent in DIG deposits on the dig and on the trail
\* channel, and an agent in FORAGE or in CARRY deposits on the food and on the
\* trail channel, at its current cell.  Stated for the ants that stay in their
\* state over the tick and stand inside the grid.
C34_ActDeposits ==
  [][AntLoop =>
       \A i \in Thinkers :
         (ants'[i].state = ants[i].state /\ InBounds(gxOf(ants[i]), gyOf(ants[i])))
           => /\ ants[i].state = ST_DIG
                   => Scented(phDig', ants[i]) /\ Scented(phTrail', ants[i])
              /\ ants[i].state \in {ST_FORAGE, ST_CARRY}
                   => Scented(phFood', ants[i]) /\ Scented(phTrail', ants[i])]_vars

\* the values of the twelve samples of a query, and the largest of them
SamplesOf(f, gx, gy) ==
  {phGet(f, gx + GradOffsets5[k][1], gy + GradOffsets5[k][2]) : k \in DOMAIN GradOffsets5}
Strongest(f, gx, gy) ==
  CHOOSE v \in SamplesOf(f, gx, gy) : \A w \in SamplesOf(f, gx, gy) : w <= v

\* C35: when at least one of the 12 sampled directions holds a value that
\* exceeds the centre value by more than the margin (0.01), gradient() returns
\* a direction, and the strength and the direction are those of the strongest
\* of the 12 samples.
C35_GradientReturnsStrongest ==
  (lastCall = "gradient"
     /\ Strongest(Field(ret.of), ret.at[1], ret.at[2]) * 100
          > phGet(Field(ret.of), ret.at[1], ret.at[2]) * 100 + PhOne)
    => /\ ret.found.angle # 0
       /\ ret.found.strength = Strongest(Field(ret.of), ret.at[1], ret.at[2])
       /\ phGet(Field(ret.of), ret.at[1] + GradOffsets5[ret.found.angle][1],
                ret.at[2] + GradOffsets5[ret.found.angle][2])
            = Strongest(Field(ret.of), ret.at[1], ret.at[2])

\* C36: the ids of the brood items are pairwise distinct in every reachable
\* state, also after a checkpoint has been restored in a new page and the
\* queen has laid further eggs.
C36_BroodIdsDistinct ==
  \A j, k \in DOMAIN brood : j # k => brood[j].id # brood[k].id

\* |a - b| <= half a unit of the rounding: a and b in units of 1/from, the
\* rounding to counts of 1/to
WithinRounding(a, b, from, to) ==
  2 * to * (IF a >= b THEN a - b ELSE b - a) <= from

\* C37: restoring a checkpoint of the colony preserves every agent's maturity,
\* energy and carried sand and food counts, up to the serializer's rounding
\* (three decimals for the maturity, one for the energy); a newly emerged
\* agent with maturity 0 still has maturity 0.  Stated for the restore of a
\* checkpoint of the colony as it is, and for the agents that have a maturity.
C37_RoundTripKeepsAgents ==
  [][(QueenReopen /\ kv[1] = serialize(Colony)) =>
       /\ Len(ants') = Len(ants)
       /\ \A i \in DOMAIN ants :
            /\ ants[i].maturity # NoMaturity
                 => WithinRounding(ants'[i].maturity, ants[i].maturity, MScale, FIXED3)
            /\ WithinRounding(ants'[i].energy, ants[i].energy, EScale, FIXED1)
            /\ ants'[i].carryingSand = ants[i].carryingSand
            /\ ants'[i].carryingFood = ants[i].carryingFood]_vars

\* the open pages that act as leader
Leaders == {s \in Sessions : network[s].page = "open" /\ network[s].isLeader}

\* C38: at any time at most one client session acts as leader, under
\* concurrent claim requests, the expiry of the lease after 60 seconds and
\* failed or erroring claim requests.
C38_AtMostOneLeader == Cardinality(Leaders) <= 1

\* C39: if the leader stops while another client is connected, then after
\* the lease has expired some other connected client eventually becomes
\* leader (or no other client stays connected).
C39_LeadershipMovesOn ==
  \A s \in Sessions :
    (network[s].page = "closed" /\ network[s].isLeader
       /\ \E t \in Sessions \ {s} : network[t].page = "open")
      ~> (Leaders # {} \/ \A t \in Sessions \ {s} : network[t].page # "open")

\* how often the tick cycles have run command k
TimesApplied(k) == Cardinality({i \in DOMAIN network.applied : network.applied[i] = k})
Queued(k) == \E i \in DOMAIN store.commands : store.commands[i] = k

\* C40: every admin command accepted by POST /api/admin is applied by exactly
\* one tick cycle: it is never applied twice, and until it is applied it is
\* in the queue (it is not lost).
C40_EachCommandOnce ==
  \A k \in network.accepted :
    \/ TimesApplied(k) = 1
    \/ TimesApplied(k) = 0 /\ Queued(k)

====
